---- MODULE Spec2Model ----
(***************************************************************************)
(* A model of the entab record readers: file type sniffing                 *)
(* (filetype.rs), the FASTQ and Inficon slice parsers, and the FASTA and   *)
(* SAM/BAM buffer readers.  Byte strings are sequences of integers 0..255. *)
(* Every component has its own specification over its own variables; the   *)
(* variables of the other components keep their initial values.            *)
(***************************************************************************)
EXTENDS Integers, Sequences, FiniteSets, TLC

VARIABLES
    ft_magic,      \* filetype: the buffer handed to from_magic
    ft_stage,      \* filetype: which call sequence has been made
    ft_type,       \* filetype: the last FileType returned
    ft_type_in,    \* filetype: the FileType a round trip started from
    ft_name_in,    \* filetype: the parser name a round trip started from
    ft_name_out,   \* filetype: the last parser name returned
    fq_lf,         \* fastq: the input as written with LF line endings
    fq_src,        \* fastq: the bytes of the source (fq_lf, or fq_lf with CRLF)
    fq_pos,        \* fastq: bytes consumed so far (start of the window in the source)
    fq_fill,       \* fastq: bytes read from the source so far (end of the window)
    fq_eof,        \* fastq: the buffer has seen the end of the source
    fq_state,      \* fastq: FastqState
    fq_pc,         \* fastq: where next() stands: "parse", "refill", "done", "error"
    fq_res,        \* fastq: what the call of parse just made returned, and on which window
    fq_recs,       \* fastq: the records next() has returned so far
    fa_src,        \* fasta: the bytes of the source
    fa_pos,        \* fasta: bytes consumed so far
    fa_fill,       \* fasta: bytes read from the source so far
    fa_eof,        \* fasta: rb.eof()
    fa_pc,         \* fasta: where get stands: "get", "refill", "scan", "done", "error"
    fa_recs,       \* fasta: the records next() has returned so far
    sb_build,      \* sam/bam: the build profile: "debug" checks integer overflow, "release" wraps
    sb_als,        \* sam/bam: the alignments the inputs were written from (<<>> for raw inputs)
    bam_refs,      \* bam: BamState.references, a <<name, length>> each
    bam_stream,    \* bam: the records the source was written from: fixed fields, data bytes
    bam_src,       \* bam: the bytes of the source (after decompression)
    bam_fail,      \* bam: the call of get whose read fails (-1: none)
    bam_pc,        \* bam: where the reader stands: "setup", "ready", "done", "error", "panic"
    bam_recs,      \* bam: the records next() has returned so far
    bam_err,       \* bam: the message of the error that ended the iteration
    bam_pos,       \* bam: the buffer's counters <<reader_pos, record_pos>>
    bam_tag,       \* bam: the byte and record the error carries (BamNoTag before one)
    sam_lines,     \* sam: the lines of the source after the header
    sam_pc,        \* sam: where the reader stands: "ready", "done", "error", "panic"
    sam_recs,      \* sam: the records next() has returned so far
    sam_err,       \* sam: the message of the error that ended the iteration
    in_src,        \* inficon: the bytes of the scan data in the source
    in_pos,        \* inficon: bytes consumed so far
    in_fill,       \* inficon: bytes read from the source so far
    in_eof,        \* inficon: the buffer has seen the end of the source
    in_state,      \* inficon: InficonState
    in_pc,         \* inficon: where next() stands: "parse", "refill", "done", "error", "panic"
    in_res,        \* inficon: the call of parse just made: state before, window, result
    in_recs,       \* inficon: the records next() has returned so far
    dc_stream,     \* decompress: the stream handed to decompress
    dc_feature,    \* decompress: built with the "compression" feature
    dc_out,        \* decompress: what decompress returned ("none" before the call)
    dc_new,        \* Reader::new: what it returned (kind "none" before the call)
    sh_build,      \* SAM text: "debug" (overflow checks) or "release"
    sh_src,        \* SAM text: the bytes of the source
    sh_fail,       \* the bytes the source gives before a read of it fails (-1: all)
    sh_pos,        \* bytes of the source consumed so far
    sh_fill,       \* bytes of the source read so far: the window is src[pos..fill]
    sh_eof,        \* rb.eof: a read found the source at its end
    sh_pc,         \* "reserve", "setup", "ready", "done", "error", "panic"
    sh_hdr,        \* the position after each iteration of the setup loop
    sh_recs,       \* the records next() returned so far
    sh_err,        \* the message of the error that ended the iteration
    sh_tag,        \* the byte and record of that error
    js_headers,    \* host binding: the field names of the reader
    js_source,     \* host binding: the records the underlying reader will yield
    js_fail,       \* host binding: the underlying reader fails after them, or ends
    js_given,      \* host binding: how many records the underlying reader has yielded
    js_calls,      \* host binding: the calls of next() made so far
    js_out,        \* host binding: what the last call of next() returned
    is_build,      \* inficon setup: "debug" or "release" (overflow checks or none)
    is_input,      \* inficon setup: what the file was written from
    is_src,        \* inficon setup: the bytes of the file
    is_at,         \* inficon setup: con, the bytes of the file read so far
    is_pc,         \* inficon setup: "count", "segment", "entry", "loop", "scan", "done",
                   \*                "error", "panic"
    is_err,        \* inficon setup: the message of the error
    is_segments,   \* inficon setup: mz_segments as built so far
    is_seg,        \* inficon setup: the segments of the file read so far
    is_left,       \* inficon setup: the m/z ranges of the segment still to read
    is_read,       \* inficon setup: the m/z ranges of the file read so far
    is_mz,         \* inficon setup: mz, the variable of the range loop
    is_end1,       \* inficon setup: end_mz + 1, the bound of the range loop
    is_data        \* inficon setup: data_left as the setup leaves it (a u32)

ftVars == <<ft_magic, ft_stage, ft_type, ft_type_in, ft_name_in, ft_name_out>>

fqVars == <<fq_lf, fq_src, fq_pos, fq_fill, fq_eof, fq_state, fq_pc, fq_res, fq_recs>>

faVars == <<fa_src, fa_pos, fa_fill, fa_eof, fa_pc, fa_recs>>

sbVars == <<sb_build, sb_als, bam_refs, bam_stream, bam_src, bam_fail, bam_pc, bam_recs, bam_err, bam_pos,
            bam_tag, sam_lines, sam_pc, sam_recs, sam_err>>

inVars == <<in_src, in_pos, in_fill, in_eof, in_state, in_pc, in_res, in_recs>>

dcVars == <<dc_stream, dc_feature, dc_out, dc_new>>

shVars == <<sh_build, sh_src, sh_fail, sh_pos, sh_fill, sh_eof, sh_pc, sh_hdr, sh_recs, sh_err,
           sh_tag>>

jsVars == <<js_headers, js_source, js_fail, js_given, js_calls, js_out>>

isVars == <<is_build, is_input, is_src, is_at, is_pc, is_err, is_segments, is_seg, is_left,
           is_read, is_mz, is_end1, is_data>>

vars == <<ftVars, fqVars, faVars, sbVars, inVars, dcVars, shVars, jsVars, isVars>>

\* the variables of the other components, which a component leaves alone
notFt == <<fqVars, faVars, sbVars, inVars, dcVars, shVars, jsVars, isVars>>
notFq == <<ftVars, faVars, sbVars, inVars, dcVars, shVars, jsVars, isVars>>
notFa == <<ftVars, fqVars, sbVars, inVars, dcVars, shVars, jsVars, isVars>>

notSb == <<ftVars, fqVars, faVars, inVars, dcVars, shVars, jsVars, isVars>>

notIn == <<ftVars, fqVars, faVars, sbVars, dcVars, shVars, jsVars, isVars>>

notDc == <<ftVars, fqVars, faVars, sbVars, inVars, shVars, jsVars, isVars>>

notSh == <<ftVars, fqVars, faVars, sbVars, inVars, dcVars, jsVars, isVars>>

notJs == <<ftVars, fqVars, faVars, sbVars, inVars, dcVars, shVars, isVars>>

notIs == <<ftVars, fqVars, faVars, sbVars, inVars, dcVars, shVars, jsVars>>

(***************************************************************************)
(* Helpers on byte strings.                                                *)
(***************************************************************************)
\* s[..n] of a slice (the first n bytes)
Take(s, n) == SubSeq(s, 1, n)

\* s[n..] of a slice (everything after the first n bytes)
Drop(s, n) == SubSeq(s, n + 1, Len(s))

\* all sequences over S of length 0..n
SeqsUpTo(S, n) == UNION {[1..k -> S] : k \in 0..n}

\* buf[i] with the 0-based index of the source
At(buf, i) == buf[i + 1]

\* buf[a..b] with the 0-based, end-exclusive bounds of the source
Slice(buf, a, b) == SubSeq(buf, a + 1, b)

\* memchr(c, s): the 0-based index of the first c in s, -1 for None
Memchr(c, s) ==
    IF \E i \in 1..Len(s) : s[i] = c
        THEN (CHOOSE i \in 1..Len(s) : s[i] = c /\ \A j \in 1..(i - 1) : s[j] # c) - 1
        ELSE -1

\* the length of the well-formed UTF-8 sequence bs starts with, 0 when it
\* starts with none: one byte 00..7F; C2..DF and a continuation byte 80..BF;
\* E0..EF and two, F0..F4 and three, without overlong forms (E0 A0.., F0
\* 90..), surrogates (ED ..9F) and code points above 10FFFF (F4 ..8F)
Utf8SeqLen(bs) ==
    LET b1 == bs[1]
        n == IF b1 < 128 THEN 1
             ELSE IF b1 \in 194..223 THEN 2
             ELSE IF b1 \in 224..239 THEN 3
             ELSE IF b1 \in 240..244 THEN 4
             ELSE 0
        lo == CASE b1 = 224 -> 160 [] b1 = 240 -> 144 [] OTHER -> 128
        hi == CASE b1 = 237 -> 159 [] b1 = 244 -> 143 [] OTHER -> 191
    IN  IF n = 0 \/ Len(bs) < n THEN 0
        ELSE IF n >= 2 /\ bs[2] \notin lo..hi THEN 0
        ELSE IF \E i \in 3..n : bs[i] \notin 128..191 THEN 0
        ELSE n

\* core::str::from_utf8(bytes).is_ok(): bytes is a run of well-formed
\* UTF-8 sequences; bytes that are all ASCII are one
RECURSIVE Utf8Ok(_)
Utf8Ok(bytes) ==
    IF \A i \in 1..Len(bytes) : bytes[i] < 128 THEN TRUE
    ELSE LET n == Utf8SeqLen(bytes) IN n > 0 /\ Utf8Ok(Drop(bytes, n))

\* little-endian integers at rb[at..]: a u16 and an i32
U16At(rb, at) == At(rb, at) + 256 * At(rb, at + 1)

I32At(rb, at) ==
    At(rb, at) + 256 * At(rb, at + 1) + 65536 * At(rb, at + 2)
        + 16777216 * (IF At(rb, at + 3) < 128 THEN At(rb, at + 3) ELSE At(rb, at + 3) - 256)

\* the little-endian bytes of a 16-bit and of a 32-bit integer (an i32 below
\* 0 in two's complement)
Le16(n) == <<n % 256, (n \div 256) % 256>>

Le32(n) == <<n % 256, (n \div 256) % 256, (n \div 65536) % 256, (n \div 16777216) % 256>>

\* n NUL bytes
Zeros(n) == [i \in 1..n |-> 0]

\* the bytes the parsers look for
LF == 10
CR == 13
PLUS == 43
AT == 64
GT == 62

(***************************************************************************)
(* filetype.rs: FileType, from_magic, from_parser_name, to_parser_name.    *)
(***************************************************************************)
\* a FileType variant without payload
FT(tag) == [tag |-> tag, d |-> 0]

\* FileType::DelimitedText(u8)
DelimitedText(d) == [tag |-> "DelimitedText", d |-> d]

FileTypeTags ==
    {"Gzip", "Bzip", "Lzma", "Zstd", "Bam", "Fasta", "Fastq", "Facs", "Sam",
     "Scf", "Ztr", "AgilentMsMsScan", "AgilentChemstationFid",
     "AgilentChemstationMs", "AgilentChemstationMwd", "AgilentChemstationUv",
     "AgilentDad", "BrukerBaf", "BrukerMsms", "InficonHapsite", "ThermoRaw",
     "ThermoCf", "ThermoDxf", "WatersAutospec", "NetCdf", "MzXml", "Las",
     "Png", "Hdf5", "Unknown"}

\* the delimiter bytes the model gives DelimitedText: ',' '\t' and ';'
DelimiterBytes == {44, 9, 59}

FileType == {FT(t) : t \in FileTypeTags} \cup {DelimitedText(d) : d \in DelimiterBytes}

\* the 8-byte magics of from_magic
MagicFcs20 == <<70, 67, 83, 50, 46, 48, 32, 32>>
MagicFcs30 == <<70, 67, 83, 51, 46, 48, 32, 32>>
MagicFcs31 == <<70, 67, 83, 51, 46, 49, 32, 32>>
MagicLasUpper == <<126, 86, 69, 82, 83, 73, 79, 78>>
MagicLasLower == <<126, 86, 101, 114, 115, 105, 111, 110>>
MagicPng == <<137, 80, 78, 71, 13, 10, 26, 10>>
MagicHdf5 == <<137, 72, 68, 70, 13, 10, 26, 10>>
MagicInficon == <<4, 3, 2, 1, 83, 80, 65, 72>>
MagicZtr == <<174, 90, 84, 82, 13, 10, 26, 10>>
MagicThermoRaw == <<1, 161, 70, 0, 105, 0, 110, 0>>

\* the 4-byte magics of from_magic
MagicBam == <<66, 65, 77, 1>>
MagicSamHd == <<64, 72, 68, 9>>
MagicSamSq == <<64, 83, 81, 9>>
MagicScf == <<46, 115, 99, 102>>
MagicFid == <<2, 56, 49, 0>>
MagicMs == <<1, 50, 0, 0>>
MagicMwd == <<2, 51, 48, 0>>
MagicUv == <<3, 49, 51, 49>>
MagicZstd == <<40, 181, 47, 253>>
MagicThermo6 == <<255, 255, 6, 0>>
MagicThermo5 == <<255, 255, 5, 0>>

\* "C\0I\0s\0o\0G\0C\0", looked for at magic[52..64]
MagicCIsoGC == <<67, 0, 73, 0, 115, 0, 111, 0, 71, 0, 67, 0>>

\* the match on &magic[..8]; "none" when no arm returns
Match8(m) ==
    IF m \in {MagicFcs20, MagicFcs30, MagicFcs31} THEN "Facs"
    ELSE IF m \in {MagicLasUpper, MagicLasLower} THEN "Las"
    ELSE IF m = MagicPng THEN "Png"
    ELSE IF m = MagicHdf5 THEN "Hdf5"
    ELSE IF m = MagicInficon THEN "InficonHapsite"
    ELSE IF m = MagicZtr THEN "Ztr"
    ELSE IF m = MagicThermoRaw THEN "ThermoRaw"
    ELSE "none"

\* the match on &magic[..4]; magic is the whole buffer (the Thermo arm reads on)
Match4(magic) ==
    LET m == Take(magic, 4) IN
    IF m = MagicBam THEN "Bam"
    ELSE IF m \in {MagicSamHd, MagicSamSq} THEN "Sam"
    ELSE IF m = MagicScf THEN "Scf"
    ELSE IF m = MagicFid THEN "AgilentChemstationFid"
    ELSE IF m = MagicMs THEN "AgilentChemstationMs"
    ELSE IF m = MagicMwd THEN "AgilentChemstationMwd"
    ELSE IF m = MagicUv THEN "AgilentChemstationUv"
    ELSE IF m = MagicZstd THEN "Zstd"
    ELSE IF m \in {MagicThermo6, MagicThermo5}
        THEN IF Len(magic) >= 78 /\ SubSeq(magic, 53, 64) = MagicCIsoGC
                THEN "ThermoCf"
                ELSE "ThermoDxf"
    ELSE "none"

\* the match on &magic[..2]
Match2(m) ==
    IF m[2] = 139 /\ m[1] \in {15, 31} THEN "Gzip"
    ELSE IF m = <<66, 90>> THEN "Bzip"
    ELSE IF m = <<253, 55>> THEN "Lzma"
    ELSE IF m = <<36, 0>> THEN "BrukerBaf"
    ELSE IF m = <<67, 68>> THEN "NetCdf"
    ELSE "none"

\* the match on &magic[..1]
Match1(m) ==
    IF m = <<62>> THEN "Fasta"
    ELSE IF m = <<64>> THEN "Fastq"
    ELSE "Unknown"

\* FileType::from_magic
from_magic(magic) ==
    LET r8 == IF Len(magic) > 8 THEN Match8(Take(magic, 8)) ELSE "none"
        r4 == IF Len(magic) > 4 THEN Match4(magic) ELSE "none"
        r2 == IF Len(magic) >= 2 THEN Match2(Take(magic, 2)) ELSE "none"
    IN  IF r8 # "none" THEN FT(r8)
        ELSE IF r4 # "none" THEN FT(r4)
        ELSE IF Len(magic) < 2 THEN FT("Unknown")
        ELSE IF r2 # "none" THEN FT(r2)
        ELSE FT(Match1(Take(magic, 1)))

\* from_parser_name with "tsv" given the comma delimiter of "csv"
from_parser_name_tsv_comma(parser_name) ==
    CASE parser_name = "chemstation_fid" -> FT("AgilentChemstationFid")
      [] parser_name = "chemstation_ms" -> FT("AgilentChemstationMs")
      [] parser_name = "chemstation_mwd" -> FT("AgilentChemstationMwd")
      [] parser_name = "chemstation_uv" -> FT("AgilentChemstationUv")
      [] parser_name = "csv" -> DelimitedText(44)
      [] parser_name = "bam" -> FT("Bam")
      [] parser_name = "fcs" -> FT("Facs")
      [] parser_name = "fasta" -> FT("Fasta")
      [] parser_name = "fastq" -> FT("Fastq")
      [] parser_name = "inficon" -> FT("InficonHapsite")
      [] parser_name = "png" -> FT("Png")
      [] parser_name = "sam" -> FT("Sam")
      [] parser_name = "thermo_cf" -> FT("ThermoCf")
      [] parser_name = "thermo_dxf" -> FT("ThermoDxf")
      [] parser_name = "tsv" -> DelimitedText(44)
      [] OTHER -> FT("Unknown")

\* FileType::from_parser_name
from_parser_name(parser_name) ==
    CASE parser_name = "chemstation_fid" -> FT("AgilentChemstationFid")
      [] parser_name = "chemstation_ms" -> FT("AgilentChemstationMs")
      [] parser_name = "chemstation_mwd" -> FT("AgilentChemstationMwd")
      [] parser_name = "chemstation_uv" -> FT("AgilentChemstationUv")
      [] parser_name = "csv" -> DelimitedText(44)
      [] parser_name = "bam" -> FT("Bam")
      [] parser_name = "fcs" -> FT("Facs")
      [] parser_name = "fasta" -> FT("Fasta")
      [] parser_name = "fastq" -> FT("Fastq")
      [] parser_name = "inficon" -> FT("InficonHapsite")
      [] parser_name = "png" -> FT("Png")
      [] parser_name = "sam" -> FT("Sam")
      [] parser_name = "thermo_cf" -> FT("ThermoCf")
      [] parser_name = "thermo_dxf" -> FT("ThermoDxf")
      [] parser_name = "tsv" -> DelimitedText(9)
      [] OTHER -> FT("Unknown")

\* the {:?} rendering of a FileType in the fallback arm of to_parser_name
DebugFmt(ft) ==
    IF ft.tag = "DelimitedText"
        THEN "DelimitedText(" \o ToString(ft.d) \o ")"
        ELSE ft.tag

\* FileType::to_parser_name
to_parser_name(ft) ==
    CASE ft = FT("AgilentChemstationFid") -> "chemstation_fid"
      [] ft = FT("AgilentChemstationMs") -> "chemstation_ms"
      [] ft = FT("AgilentChemstationMwd") -> "chemstation_mwd"
      [] ft = FT("AgilentChemstationUv") -> "chemstation_uv"
      [] ft = FT("Bam") -> "bam"
      [] ft = FT("Facs") -> "fcs"
      [] ft = FT("Fasta") -> "fasta"
      [] ft = FT("Fastq") -> "fastq"
      [] ft = FT("InficonHapsite") -> "inficon"
      [] ft = FT("Png") -> "png"
      [] ft = FT("Sam") -> "sam"
      [] ft = FT("ThermoCf") -> "thermo_cf"
      [] ft = FT("ThermoDxf") -> "thermo_dxf"
      [] ft = DelimitedText(44) -> "csv"
      [] ft = DelimitedText(9) -> "tsv"
      [] OTHER -> "unsupported/" \o DebugFmt(ft)

(***************************************************************************)
(* The file type component: one buffer is sniffed, and names and types are *)
(* sent through the two tables.                                            *)
(***************************************************************************)
\* bound: the longest tail appended to a magic
MaxTail == 2

\* the bytes a tail is made of: NUL, '>' and '@'
TailBytes == {0, 62, 64}

\* the bytes of the short buffers that carry no magic
ShortBytes == {31, 139, 62, 64, 66, 90}

Magics8 ==
    {MagicFcs20, MagicFcs30, MagicFcs31, MagicLasUpper, MagicLasLower, MagicPng,
     MagicHdf5, MagicInficon, MagicZtr, MagicThermoRaw}

Magics4 ==
    {MagicBam, MagicSamHd, MagicSamSq, MagicScf, MagicFid, MagicMs, MagicMwd,
     MagicUv, MagicZstd, MagicThermo6, MagicThermo5}

Magics2 == {<<31, 139>>, <<15, 139>>, <<66, 90>>, <<253, 55>>, <<36, 0>>, <<67, 68>>}

\* a Thermo header of n bytes with the CIsoGC marker at [52..64]
ThermoBuffer(n) == Take(MagicThermo6 \o Zeros(48) \o MagicCIsoGC \o Zeros(14), n)

MagicInputs ==
    {m \o t : m \in Magics8 \cup Magics4 \cup Magics2, t \in SeqsUpTo(TailBytes, MaxTail)}
        \cup {Take(m, 7) : m \in Magics8}
        \cup {Take(m, 3) : m \in Magics4}
        \cup SeqsUpTo(ShortBytes, 2)
        \cup {ThermoBuffer(78), ThermoBuffer(77), ThermoBuffer(64)}

ParserNames ==
    {"chemstation_fid", "chemstation_ms", "chemstation_mwd", "chemstation_uv",
     "csv", "bam", "fcs", "fasta", "fastq", "inficon", "png", "sam",
     "thermo_cf", "thermo_dxf", "tsv"}

\* names given to from_parser_name: the supported ones and some others
ParserNameInputs == ParserNames \cup {"", "gzip", "unsupported/Gzip", "TSV"}

FtStart ==
    /\ ft_magic \in MagicInputs
    /\ ft_stage = "start"
    /\ ft_type = FT("Unknown")
    /\ ft_type_in = FT("Unknown")
    /\ ft_name_in = ""
    /\ ft_name_out = ""

\* the reader's first call: FileType::from_magic on the buffered prefix
FtFromMagic ==
    /\ ft_stage = "start"
    /\ ft_type' = from_magic(ft_magic)
    /\ ft_stage' = "sniffed"
    /\ UNCHANGED <<ft_magic, ft_type_in, ft_name_in, ft_name_out, notFt>>

\* from_parser_name on a given name
FtNameToType(n) ==
    /\ ft_stage = "start"
    /\ ft_name_in' = n
    /\ ft_type' = from_parser_name(n)
    /\ ft_stage' = "n2t"
    /\ UNCHANGED <<ft_magic, ft_type_in, ft_name_out, notFt>>

\* to_parser_name on the type from_parser_name returned
FtTypeToNameBack ==
    /\ ft_stage = "n2t"
    /\ ft_name_out' = to_parser_name(ft_type)
    /\ ft_stage' = "n2t2n"
    /\ UNCHANGED <<ft_magic, ft_type, ft_type_in, ft_name_in, notFt>>

\* to_parser_name on a given type
FtTypeToName(ft) ==
    /\ ft_stage = "start"
    /\ ft_type_in' = ft
    /\ ft_name_out' = to_parser_name(ft)
    /\ ft_stage' = "t2n"
    /\ UNCHANGED <<ft_magic, ft_type, ft_name_in, notFt>>

\* from_parser_name on the name to_parser_name returned
FtNameToTypeBack ==
    /\ ft_stage = "t2n"
    /\ ft_type' = from_parser_name(ft_name_out)
    /\ ft_stage' = "t2n2t"
    /\ UNCHANGED <<ft_magic, ft_type_in, ft_name_in, ft_name_out, notFt>>

FtNext ==
    \/ FtFromMagic
    \/ \E n \in ParserNameInputs : FtNameToType(n)
    \/ FtTypeToNameBack
    \/ \E ft \in FileType : FtTypeToName(ft)
    \/ FtNameToTypeBack

\* the file type component before any call, on the empty buffer
FtIdle ==
    /\ ft_magic = <<>>
    /\ ft_stage = "start"
    /\ ft_type = FT("Unknown")
    /\ ft_type_in = FT("Unknown")
    /\ ft_name_in = ""
    /\ ft_name_out = ""

(***************************************************************************)
(* parsers/fastq.rs: FastqState, FastqRecord::parse and FastqRecord::get.  *)
(***************************************************************************)
\* FastqState::default()
FastqStateDefault == [header_end |-> 0, seq |-> <<0, 0>>, qual |-> <<0, 0>>]

\* what parse returns: Ok(true) "ok", Ok(false) "done", Err(..) "error" (with
\* its incomplete flag); state is the FastqState it leaves and consumed what
\* it added to *consumed
FastqResult(kind, incomplete, msg, state, consumed) ==
    [kind |-> kind, incomplete |-> incomplete, msg |-> msg, state |-> state,
     consumed |-> consumed]

\* the end of the header: the '\r' of a "\r\n" ending is left out
FastqHeaderEnd(buf, p) ==
    IF p > 0 /\ At(buf, p - 1) = CR THEN p - 1 ELSE p

\* the end of the sequence with the '\r' before "\n+" kept in the sequence
FastqSeqEndKeepCR(buf, seq_start, p) == seq_start + p - 1

\* the end of the sequence, p being the offset of '+' from seq_start: the
\* '\n' before the '+' is left out, and the '\r' of a "\r\n" ending too
FastqSeqEnd(buf, seq_start, p) ==
    IF seq_start + p > 2 /\ At(buf, seq_start + p - 2) = CR
        THEN seq_start + p - 2
        ELSE seq_start + p - 1

\* the end of the quality taken to be the end of the record
FastqQualEndAtRecEnd(qual_start, seq, id2_start) ==
    qual_start + (seq[2] - seq[1]) + (id2_start - seq[2])

\* the end of the quality: as long as the sequence
FastqQualEnd(qual_start, seq, id2_start) == qual_start + (seq[2] - seq[1])

\* the last step of parse without the deduction at eof: the record's end
\* always counts the newline after the quality
FastqParseQualityNoDeduction(buf, eof, st, id2_start, qual_start) ==
    LET qual_end == FastqQualEnd(qual_start, st.seq, id2_start)
        rec_end == qual_end + (id2_start - st.seq[2])
    IN  IF rec_end > Len(buf)
            THEN FastqResult("error", TRUE, "Record ended prematurely in quality", st, 0)
            ELSE FastqResult("ok", FALSE, "",
                             [st EXCEPT !.qual = <<qual_start, qual_end>>], rec_end)

\* the last step of parse with the deduction of the missing newlines made
\* in every window, not only in the last one of the source
FastqParseQualityDeductAlways(buf, eof, st, id2_start, qual_start) ==
    LET qual_end == FastqQualEnd(qual_start, st.seq, id2_start)
        gap == id2_start - st.seq[2]
        rec_end0 == qual_end + gap
        rec_end == IF rec_end0 > Len(buf) THEN rec_end0 - gap ELSE rec_end0
    IN  IF rec_end > Len(buf)
            THEN FastqResult("error", TRUE, "Record ended prematurely in quality", st, 0)
            ELSE FastqResult("ok", FALSE, "",
                             [st EXCEPT !.qual = <<qual_start, qual_end>>], rec_end)

\* the last step of parse without the check of the record's end against
\* the window
FastqParseQualityUnchecked(buf, eof, st, id2_start, qual_start) ==
    LET qual_end == FastqQualEnd(qual_start, st.seq, id2_start)
        rec_end == qual_end + (id2_start - st.seq[2])
    IN  FastqResult("ok", FALSE, "", [st EXCEPT !.qual = <<qual_start, qual_end>>], rec_end)

\* the last step of parse: the quality scores location and the record's end
FastqParseQuality(buf, eof, st, id2_start, qual_start) ==
    LET qual_end == FastqQualEnd(qual_start, st.seq, id2_start)
        gap == id2_start - st.seq[2]
        rec_end0 == qual_start + (st.seq[2] - st.seq[1]) + gap
        rec_end == IF rec_end0 > Len(buf) /\ eof THEN rec_end0 - gap ELSE rec_end0
    IN  IF rec_end > Len(buf)
            THEN FastqResult("error", TRUE, "Record ended prematurely in quality", st, 0)
            ELSE FastqResult("ok", FALSE, "",
                             [st EXCEPT !.qual = <<qual_start, qual_end>>], rec_end)

\* the steps of parse after the header with one message for a missing '+'
\* line and for a missing newline of the '+' line
FastqParseSequenceOneMessage(buf, eof, st, seq_start) ==
    LET p == Memchr(PLUS, Drop(buf, seq_start))
        st2 == [st EXCEPT !.seq = <<seq_start, FastqSeqEnd(buf, seq_start, p)>>]
        id2_start == seq_start + p
        q == Memchr(LF, Drop(buf, id2_start))
    IN  IF p = -1
            THEN FastqResult("error", TRUE, "Record ended prematurely in sequence", st, 0)
        ELSE IF p = 0 \/ At(buf, seq_start + p - 1) # LF
            THEN FastqResult("error", FALSE, "Unexpected + found in sequence", st, 0)
        ELSE IF q = -1
            THEN FastqResult("error", TRUE, "Record ended prematurely in sequence", st2, 0)
        ELSE FastqParseQuality(buf, eof, st2, id2_start, id2_start + q + 1)

\* the steps of parse after the header: the sequence and the second header
FastqParseSequence(buf, eof, st, seq_start) ==
    LET p == Memchr(PLUS, Drop(buf, seq_start))
        st2 == [st EXCEPT !.seq = <<seq_start, FastqSeqEnd(buf, seq_start, p)>>]
        id2_start == seq_start + p
        q == Memchr(LF, Drop(buf, id2_start))
    IN  IF p = -1
            THEN FastqResult("error", TRUE, "Record ended prematurely in sequence", st, 0)
        ELSE IF p = 0 \/ At(buf, seq_start + p - 1) # LF
            THEN FastqResult("error", FALSE, "Unexpected + found in sequence", st, 0)
        ELSE IF q = -1
            THEN FastqResult("error", TRUE, "Record ended prematurely in second header",
                             st2, 0)
        ELSE FastqParseQuality(buf, eof, st2, id2_start, id2_start + q + 1)

\* FastqRecord::parse(buf, eof, consumed, state)
FastqParse(buf, eof, st) ==
    LET p == Memchr(LF, buf) IN
    IF Len(buf) = 0
        THEN IF eof
                THEN FastqResult("done", FALSE, "", st, 0)
                ELSE FastqResult("error", TRUE, "No FASTQ could be parsed", st, 0)
    ELSE IF At(buf, 0) # AT
        THEN FastqResult("error", FALSE, "Valid FASTQ records start with '@'", st, 0)
    ELSE IF p = -1
        THEN FastqResult("error", TRUE, "Record ended prematurely in header", st, 0)
    ELSE FastqParseSequence(buf, eof,
                            [st EXCEPT !.header_end = FastqHeaderEnd(buf, p)], p + 1)

\* FastqRecord::default(): the record get is called on
FastqRecordDefault == [id |-> <<>>, sequence |-> <<>>, quality |-> <<>>]

\* FastqRecord::get(buf, state): from_utf8 on the id returns Err for an id
\* that is not UTF-8, before any field is set; else Ok with the three slices
FastqGet(buf, st) ==
    LET id == Slice(buf, 1, st.header_end) IN
    IF ~Utf8Ok(id)
        THEN [ok |-> FALSE, msg |-> "Utf8Error", rec |-> FastqRecordDefault]
        ELSE [ok |-> TRUE, msg |-> "",
              rec |-> [id |-> id,
                       sequence |-> Slice(buf, st.seq[1], st.seq[2]),
                       quality |-> Slice(buf, st.qual[1], st.qual[2])]]

(***************************************************************************)
(* The FASTQ reader: next() of impl_reader! drives parse over the buffer's *)
(* window, refilling while parse reports an incomplete record.             *)
(***************************************************************************)
\* bound: the longest id and second-header text of a generated record
MaxIdLen == 1

\* bound: the longest sequence of a generated record
MaxSeqLen == 2

\* bound: the longest run of arbitrary bytes after a leading '@'
MaxJunk == 6

\* the bytes of generated ids ('i'), sequences ('A') and qualities ('!', '+', '@')
IdBytes == {105}
SeqBytes == {65}
QualBytes == {33, PLUS, AT}

\* the bytes arbitrary inputs are made of
JunkBytes == {LF, CR, PLUS, 65}

\* one four-line record with LF endings, without the last line's terminator
FastqLines(id, seq, id2, qual) ==
    <<AT>> \o id \o <<LF>> \o seq \o <<LF, PLUS>> \o id2 \o <<LF>> \o qual

FastqLfRecords ==
    {FastqLines(id, sq[1], id2, sq[2]) :
        id \in SeqsUpTo(IdBytes, MaxIdLen),
        id2 \in SeqsUpTo(IdBytes, MaxIdLen),
        sq \in UNION {[1..k -> SeqBytes] \X [1..k -> QualBytes] : k \in 0..MaxSeqLen}}

\* the records that follow a first record: "@\nA\n+\n!" and "@i\nAA\n+i\n@+"
FastqSecondRecords ==
    {FastqLines(<<>>, <<65>>, <<>>, <<33>>),
     FastqLines(<<105>>, <<65, 65>>, <<105>>, <<AT, PLUS>>)}

\* b"@id\nACGT\n+\n!!!!\n@id2\nTGCA\n+\n!!!!" of test_fastq_reading
TestFastq ==
    <<AT, 105, 100, LF, 65, 67, 71, 84, LF, PLUS, LF, 33, 33, 33, 33, LF,
      AT, 105, 100, 50, LF, 84, 71, 67, 65, LF, PLUS, LF, 33, 33, 33, 33>>

\* well-formed inputs with LF endings, the last terminator present or not
FastqLfInputs ==
    LET body == FastqLfRecords
                    \cup {a \o <<LF>> \o b : a \in FastqLfRecords, b \in FastqSecondRecords}
    IN  body \cup {b \o <<LF>> : b \in body} \cup {<<>>, TestFastq}

\* inputs that end inside a record: every proper prefix of a record, alone
\* or after the record "@i\nA\n+\n!\n"
FastqCutInputs ==
    LET first == FastqLines(<<105>>, <<65>>, <<>>, <<33>>) \o <<LF>>
        cuts == UNION {{Take(r, k) : k \in 1..(Len(r) - 1)} : r \in FastqLfRecords}
    IN  cuts \cup {first \o c : c \in cuts}

\* arbitrary inputs that start with '@'
FastqJunkInputs == {<<AT>> \o x : x \in SeqsUpTo(JunkBytes, MaxJunk)}

\* records whose id is the byte FF, which is no UTF-8: alone, and after a
\* record with the id 'i'
FastqBadIdInputs ==
    {<<AT, 255, LF, 65, LF, PLUS, LF, 33, LF>>,
     <<AT, 105, LF, 65, LF, PLUS, LF, 33, LF, AT, 255, LF, 65, LF, PLUS, LF, 33, LF>>}

\* every '\n' replaced by "\r\n"
RECURSIVE ToCRLF(_)
ToCRLF(s) ==
    IF s = <<>> THEN <<>>
    ELSE (IF Head(s) = LF THEN <<CR, LF>> ELSE <<Head(s)>>) \o ToCRLF(Tail(s))

\* the buffer's window: the bytes read and not yet consumed
FqWindow == SubSeq(fq_src, fq_pos + 1, fq_fill)

\* got is what get returned after a successful parse: "ok", "error", and
\* "none" when get was not called
FqNoResult ==
    [window |-> <<>>, eof |-> FALSE,
     r |-> FastqResult("none", FALSE, "", FastqStateDefault, 0), got |-> "none"]

FqStart ==
    /\ \/ fq_lf \in FastqLfInputs \cup FastqCutInputs /\ fq_src \in {fq_lf, ToCRLF(fq_lf)}
       \/ fq_lf \in FastqJunkInputs \cup FastqBadIdInputs /\ fq_src = fq_lf
    /\ fq_pos = 0
    /\ fq_fill = 0
    /\ fq_eof = FALSE
    /\ fq_state = FastqStateDefault
    /\ fq_pc = "parse"
    /\ fq_res = FqNoResult
    /\ fq_recs = <<>>

FqIdle ==
    /\ fq_lf = <<>>
    /\ fq_src = <<>>
    /\ fq_pos = 0
    /\ fq_fill = 0
    /\ fq_eof = FALSE
    /\ fq_state = FastqStateDefault
    /\ fq_pc = "parse"
    /\ fq_res = FqNoResult
    /\ fq_recs = <<>>

\* next(): parse on the window; a record is got and then consumed, the
\* end of the stream and an error of parse or of get end the reading, an
\* incomplete record before the end of the source asks for a refill
FqParse ==
    /\ fq_pc = "parse"
    /\ LET r == FastqParse(FqWindow, fq_eof, fq_state)
           g == FastqGet(FqWindow, r.state)
           got == r.kind = "ok" /\ g.ok
       IN
        /\ fq_res' = [window |-> FqWindow, eof |-> fq_eof, r |-> r,
                      got |-> IF r.kind # "ok" THEN "none"
                              ELSE IF g.ok THEN "ok" ELSE "error"]
        /\ fq_state' = r.state
        /\ fq_pos' = IF got THEN fq_pos + r.consumed ELSE fq_pos
        /\ fq_recs' = IF got THEN Append(fq_recs, g.rec) ELSE fq_recs
        /\ fq_pc' = CASE got -> "parse"
                      [] r.kind = "done" -> "done"
                      [] r.kind = "error" /\ r.incomplete /\ ~fq_eof -> "refill"
                      [] OTHER -> "error"
    /\ UNCHANGED <<fq_lf, fq_src, fq_fill, fq_eof, notFq>>

\* refill(): the source gives n more bytes; none left is the end of the source
FqRefill ==
    /\ fq_pc = "refill"
    /\ IF fq_fill = Len(fq_src)
        THEN fq_eof' = TRUE /\ fq_fill' = fq_fill
        ELSE fq_eof' = FALSE /\ \E n \in 1..(Len(fq_src) - fq_fill) : fq_fill' = fq_fill + n
    /\ fq_pc' = "parse"
    /\ fq_res' = FqNoResult
    /\ UNCHANGED <<fq_lf, fq_src, fq_pos, fq_state, fq_recs, notFq>>

FqNext == FqParse \/ FqRefill

(***************************************************************************)
(* readers/fasta.rs: Option<FastaRecord>::get.                             *)
(***************************************************************************)
\* the for loop with found_end set at the first newline, whatever follows it
RECURSIVE FastaNewlinesAnyEnd(_, _, _)
FastaNewlinesAnyEnd(rb, seq_start, raw_pos) ==
    LET pos == seq_start + raw_pos
        pushed == (IF pos > 0 /\ At(rb, pos - 1) = CR THEN <<raw_pos - 1>> ELSE <<>>)
                      \o <<raw_pos>>
    IN  IF pos >= Len(rb) THEN [newlines |-> <<>>, found_end |-> FALSE]
        ELSE IF At(rb, pos) # LF THEN FastaNewlinesAnyEnd(rb, seq_start, raw_pos + 1)
        ELSE [newlines |-> pushed, found_end |-> TRUE]

\* the for loop over memchr_iter(b'\n', &rb[seq_start..]) from offset raw_pos
\* on: the positions pushed on seq_newlines and whether found_end was set
RECURSIVE FastaNewlines(_, _, _)
FastaNewlines(rb, seq_start, raw_pos) ==
    LET pos == seq_start + raw_pos
        pushed == (IF pos > 0 /\ At(rb, pos - 1) = CR THEN <<raw_pos - 1>> ELSE <<>>)
                      \o <<raw_pos>>
        rest == FastaNewlines(rb, seq_start, raw_pos + 1)
    IN  IF pos >= Len(rb) THEN [newlines |-> <<>>, found_end |-> FALSE]
        ELSE IF At(rb, pos) # LF THEN rest
        ELSE IF pos + 1 < Len(rb) /\ At(rb, pos + 1) = GT
            THEN [newlines |-> pushed, found_end |-> TRUE]
        ELSE [newlines |-> pushed \o rest.newlines, found_end |-> rest.found_end]

\* the while loop that pops the trailing consecutive newlines: the list and
\* endpos it ends with
RECURSIVE FastaPopTrailing(_, _)
FastaPopTrailing(newlines, endpos) ==
    IF endpos > 0 /\ Len(newlines) > 0 /\ newlines[Len(newlines)] = endpos - 1
        THEN FastaPopTrailing(Take(newlines, Len(newlines) - 1), newlines[Len(newlines)])
        ELSE [newlines |-> newlines, endpos |-> endpos]

\* the sequence put together from raw_sequence[start..] without the bytes at
\* the positions of seq_newlines
RECURSIVE FastaJoin(_, _, _)
FastaJoin(raw_sequence, newlines, start) ==
    IF newlines = <<>> THEN Slice(raw_sequence, start, Len(raw_sequence))
    ELSE Slice(raw_sequence, start, Head(newlines))
            \o FastaJoin(raw_sequence, Tail(newlines), Head(newlines) + 1)

\* one pass of the loop of get over the window rb: "refill" when it calls
\* rb.refill() and continues, "error" for Incomplete record; else rec_end
\* bytes are consumed and the record is returned, or the error of from_utf8
\* for a header that is not UTF-8
FastaScan(rb, eof) ==
    LET p == Memchr(LF, rb)
        header_end == IF p > 0 /\ At(rb, p - 1) = CR THEN p - 1 ELSE p
        seq_start == p + 1
        scan == FastaNewlines(rb, seq_start, 0)
        last == scan.newlines[Len(scan.newlines)]
        popped == FastaPopTrailing(Take(scan.newlines, Len(scan.newlines) - 1), last)
        seq_end == IF scan.found_end THEN seq_start + popped.endpos ELSE Len(rb)
        rec_end == IF scan.found_end THEN seq_start + last + 1 ELSE Len(rb)
        seq_newlines == IF scan.found_end THEN popped.newlines ELSE scan.newlines
        none == [kind |-> "none", msg |-> "", id |-> <<>>, sequence |-> <<>>,
                 rec_end |-> 0]
    IN  IF p = -1
            THEN IF eof THEN [none EXCEPT !.kind = "error", !.msg = "Incomplete record"]
                        ELSE [none EXCEPT !.kind = "refill"]
        ELSE IF ~scan.found_end /\ ~eof
            THEN [none EXCEPT !.kind = "refill"]
        ELSE IF ~Utf8Ok(Slice(rb, 1, header_end))
            THEN [none EXCEPT !.kind = "error", !.msg = "Utf8Error", !.rec_end = rec_end]
        ELSE [kind |-> "record", msg |-> "",
              id |-> Slice(rb, 1, header_end),
              sequence |-> FastaJoin(Slice(rb, seq_start, seq_end), seq_newlines, 0),
              rec_end |-> rec_end]

(***************************************************************************)
(* The FASTA reader: FastaReader::next() extracts one record from the      *)
(* buffer; get refills the buffer itself and starts its scan over.         *)
(***************************************************************************)
\* bound: the longest run of arbitrary bytes after a leading '>'
MaxFasta == 6

\* the bytes arbitrary FASTA inputs are made of: '\n', '\r', '>' and 'A'
FastaBytes == {LF, CR, GT, 65}

\* b">id\nACGT\nAAAA\n>id2\nTGCA" of test_fasta_multiline
TestFastaMultiline ==
    <<GT, 105, 100, LF, 65, 67, 71, 84, LF, 65, 65, 65, 65, LF,
      GT, 105, 100, 50, LF, 84, 71, 67, 65>>

\* b">hd\n\n>\n\n" of test_fasta_empty_fields
TestFastaEmpty == <<GT, 104, 100, LF, LF, GT, LF, LF>>

\* records whose header is no UTF-8: the byte FF, and 'i' with the first
\* byte of a two-byte sequence before a second record
FastaBadHeaders ==
    {<<GT, 255, LF, 65, LF>>, <<GT, 105, 195, LF, 65, LF, GT, 120, LF, 67, LF>>}

FastaInputs ==
    {<<GT>> \o x : x \in SeqsUpTo(FastaBytes, MaxFasta)}
        \cup {<<>>, <<65>>, TestFastaMultiline, ToCRLF(TestFastaMultiline) \o <<CR, LF>>,
              TestFastaEmpty}
        \cup FastaBadHeaders

FaWindow == SubSeq(fa_src, fa_pos + 1, fa_fill)

\* ReadBuffer::from_slice holds the whole input and is at its end;
\* ReadBuffer::new has read a first chunk of a non-empty source
FaStart ==
    /\ fa_src \in FastaInputs
    /\ fa_pos = 0
    /\ \/ fa_fill = Len(fa_src) /\ fa_eof = TRUE
       \/ fa_fill \in 1..Len(fa_src) /\ fa_eof = FALSE
    /\ fa_pc = "get"
    /\ fa_recs = <<>>

FaIdle ==
    /\ fa_src = <<>>
    /\ fa_pos = 0
    /\ fa_fill = 0
    /\ fa_eof = TRUE
    /\ fa_pc = "get"
    /\ fa_recs = <<>>

\* what a pass of the loop does to the reader; the error of from_utf8
\* comes after rb.consume(rec_end), so it leaves the record's bytes consumed
FaPass ==
    LET r == FastaScan(FaWindow, fa_eof) IN
    /\ fa_pc' = CASE r.kind = "record" -> "get"
                  [] r.kind = "refill" -> "refill"
                  [] OTHER -> "error"
    /\ fa_pos' = fa_pos + r.rec_end
    /\ fa_recs' = IF r.kind = "record"
                    THEN Append(fa_recs, [id |-> r.id, sequence |-> r.sequence])
                    ELSE fa_recs

\* get, from its entry: an empty buffer is the end of the records, a first
\* byte other than '>' an error, else the first pass of the loop
FaGet ==
    /\ fa_pc = "get"
    /\ IF Len(FaWindow) = 0
        THEN fa_pc' = "done" /\ UNCHANGED <<fa_pos, fa_recs>>
        ELSE IF At(FaWindow, 0) # GT
            THEN fa_pc' = "error" /\ UNCHANGED <<fa_pos, fa_recs>>
            ELSE FaPass
    /\ UNCHANGED <<fa_src, fa_fill, fa_eof, notFa>>

\* rb.refill() inside the loop: n more bytes, or the end of the source
FaRefill ==
    /\ fa_pc = "refill"
    /\ IF fa_fill = Len(fa_src)
        THEN fa_eof' = TRUE /\ fa_fill' = fa_fill
        ELSE fa_eof' = FALSE /\ \E n \in 1..(Len(fa_src) - fa_fill) : fa_fill' = fa_fill + n
    /\ fa_pc' = "scan"
    /\ UNCHANGED <<fa_src, fa_pos, fa_recs, notFa>>

\* the loop continues after a refill: the next pass, without the entry checks
FaScan ==
    /\ fa_pc = "scan"
    /\ FaPass
    /\ UNCHANGED <<fa_src, fa_fill, fa_eof, notFa>>

FaNext == FaGet \/ FaRefill \/ FaScan

(***************************************************************************)
(* readers/sam.rs: strs_to_sam and the SAM record reader.                  *)
(***************************************************************************)
TAB == 9
STAR == 42
ZERO == 48

\* Option<integer>: None, Some(val), Some(the type's maximum 2^w - 1),
\* written max |-> TRUE, and Some of a value from 2^31 on, written by its
\* decimal digits in big, as both are beyond the model's integers
None == [some |-> FALSE, val |-> 0, max |-> FALSE, big |-> <<>>]
Some(v) == [some |-> TRUE, val |-> v, max |-> FALSE, big |-> <<>>]
SomeMax == [some |-> TRUE, val |-> 0, max |-> TRUE, big |-> <<>>]
SomeBig(ds) == [some |-> TRUE, val |-> 0, max |-> FALSE, big |-> ds]

\* the value of a run of ASCII digits
RECURSIVE DigitsValue(_)
DigitsValue(ds) ==
    IF ds = <<>> THEN 0
    ELSE 10 * DigitsValue(Take(ds, Len(ds) - 1)) + (ds[Len(ds)] - ZERO)

\* decimal digits without their leading zeros (one digit at least)
RECURSIVE StripZeros(_)
StripZeros(ds) == IF Len(ds) > 1 /\ ds[1] = 0 THEN StripZeros(Tail(ds)) ELSE ds

\* a <= b for two numbers written by their decimal digits
RECURSIVE DigitsLeq(_, _)
DigitsLeq(a, b) ==
    IF Len(a) # Len(b) THEN Len(a) < Len(b)
    ELSE IF a = <<>> THEN TRUE
    ELSE IF a[1] # b[1] THEN a[1] < b[1]
    ELSE DigitsLeq(Tail(a), Tail(b))

\* a - 1 for a number a > 0 written by its decimal digits
RECURSIVE DigitsPred(_)
DigitsPred(a) ==
    LET n == Len(a) IN
    IF a[n] > 0 THEN StripZeros([a EXCEPT ![n] = @ - 1])
    ELSE StripZeros(DigitsPred(Take(a, n - 1)) \o <<9>>)

\* a - b for two numbers a >= b written by their decimal digits: the
\* digits of equal count subtracted from the last one on, with a borrow
RECURSIVE DigitsSubRaw(_, _, _)
DigitsSubRaw(a, b, borrow) ==
    IF a = <<>> THEN <<>>
    ELSE LET n == Len(a)
             dd == a[n] - b[n] - borrow
         IN  DigitsSubRaw(Take(a, n - 1), Take(b, n - 1), IF dd < 0 THEN 1 ELSE 0)
                 \o <<IF dd < 0 THEN dd + 10 ELSE dd>>

DigitsSub(a, b) == StripZeros(DigitsSubRaw(a, Zeros(Len(a) - Len(b)) \o b, 0))

\* the maximum of the integer types of the fields of SamRecord, by its
\* decimal digits: u8 255, u16 65535, u32 4294967295 (2^32 - 1), i32
\* 2147483647 (2^31 - 1), u64 18446744073709551615 (2^64 - 1)
IntMax(ty) ==
    CASE ty = "u8" -> <<2, 5, 5>>
      [] ty = "u16" -> <<6, 5, 5, 3, 5>>
      [] ty = "u32" -> <<4, 2, 9, 4, 9, 6, 7, 2, 9, 5>>
      [] ty = "i32" -> <<2, 1, 4, 7, 4, 8, 3, 6, 4, 7>>
      [] ty = "u64" -> <<1, 8, 4, 4, 6, 7, 4, 4, 0, 7, 3, 7, 0, 9, 5, 5, 1, 6, 1, 5>>

\* the magnitude of i32::MIN, -2147483648 (-2^31)
I32MinMagnitude == <<2, 1, 4, 7, 4, 8, 3, 6, 4, 8>>

\* str::parse::<ty>(): an optional sign ('+', and '-' for a signed type),
\* then one digit or more, the value within the type.  val is the value;
\* a value from 2^31 on has val 0 and its decimal digits in big
ParseInt(text, ty) ==
    LET signed == ty = "i32"
        has_sign == Len(text) > 0 /\ (text[1] = PLUS \/ (signed /\ text[1] = 45))
        neg == has_sign /\ text[1] = 45
        ds == IF has_sign THEN Tail(text) ELSE text
        mag == StripZeros([i \in 1..Len(ds) |-> ds[i] - ZERO])
        small == DigitsLeq(mag, IntMax("i32"))
        bad == [ok |-> FALSE, val |-> 0, big |-> <<>>]
    IN  IF ds = <<>> \/ \E i \in 1..Len(ds) : ds[i] \notin 48..57 THEN bad
        ELSE IF neg /\ ~DigitsLeq(mag, I32MinMagnitude) THEN bad
        ELSE IF ~neg /\ ~DigitsLeq(mag, IntMax(ty)) THEN bad
        ELSE IF ~small /\ neg THEN [ok |-> TRUE, val |-> -2147483647 - 1, big |-> <<>>]
        ELSE IF ~small THEN [ok |-> TRUE, val |-> 0, big |-> mag]
        ELSE [ok |-> TRUE, val |-> IF neg THEN 0 - DigitsValue(ds) ELSE DigitsValue(ds),
              big |-> <<>>]

\* alloc::str::from_utf8(chunk)?.parse()?: the error of the text that is
\* not UTF-8, else of the text that is no number of the type
ParseChunk(chunk, ty) ==
    LET r == ParseInt(chunk, ty) IN
    IF ~Utf8Ok(chunk) THEN [ok |-> FALSE, msg |-> "Utf8Error", val |-> 0, big |-> <<>>]
    ELSE IF ~r.ok THEN [ok |-> FALSE, msg |-> "ParseIntError", val |-> 0, big |-> <<>>]
    ELSE [ok |-> TRUE, msg |-> "", val |-> r.val, big |-> r.big]

\* what strs_to_sam (and extract_bam_record) returns: Ok(record) "ok",
\* Err(..) "error", or a panic
SamNoRecord ==
    [query_name |-> <<>>, flag |-> 0, ref_name |-> <<>>, pos |-> None, mapq |-> None,
     cigar |-> <<>>, rnext |-> <<>>, pnext |-> None, tlen |-> 0, seq |-> <<>>,
     qual |-> <<>>, extra |-> <<>>]

SamErr(msg) == [kind |-> "error", msg |-> msg, rec |-> SamNoRecord]

SamPanic(msg) == [kind |-> "panic", msg |-> msg, rec |-> SamNoRecord]

\* a field that reads "*" as empty
StarEmpty(chunk) == IF chunk = <<STAR>> THEN <<>> ELSE chunk

\* the position fields (chunks[3], chunks[7]): "0" is None; any other text
\* is parsed and val -= 1 makes it 0-based.  The subtraction on a parsed 0
\* overflows: a panic with overflow checks (debug), 2^w - 1 without (release)
SamPosition(chunk, ty, build) ==
    LET r == ParseChunk(chunk, ty) IN
    IF chunk = <<ZERO>> THEN [kind |-> "ok", msg |-> "", opt |-> None]
    ELSE IF ~r.ok THEN [kind |-> "error", msg |-> r.msg, opt |-> None]
    ELSE IF r.big = I32MinMagnitude
        THEN [kind |-> "ok", msg |-> "", opt |-> Some(2147483647)]
    ELSE IF r.big # <<>>
        THEN [kind |-> "ok", msg |-> "", opt |-> SomeBig(DigitsPred(r.big))]
    ELSE IF r.val = 0
        THEN IF build = "debug"
                THEN [kind |-> "panic", msg |-> "attempt to subtract with overflow",
                      opt |-> None]
                ELSE [kind |-> "ok", msg |-> "", opt |-> SomeMax]
    ELSE [kind |-> "ok", msg |-> "", opt |-> Some(r.val - 1)]

\* chunks[11..] joined with '|'
RECURSIVE SamJoinExtra(_)
SamJoinExtra(cs) ==
    IF cs = <<>> THEN <<>>
    ELSE IF Len(cs) = 1 THEN cs[1]
    ELSE cs[1] \o <<124>> \o SamJoinExtra(Tail(cs))

\* strs_to_sam(chunks); chunks[k] of the source is chunks[k + 1] here
strs_to_sam(chunks, build) ==
    LET pos == SamPosition(chunks[4], "u64", build)
        mapq == ParseChunk(chunks[5], "u8")
        pnext == SamPosition(chunks[8], "u32", build)
        flag == ParseChunk(chunks[2], "u16")
        tlen == ParseChunk(chunks[9], "i32")
    IN  IF Len(chunks) < 11 THEN SamErr("Sam record too short")
        ELSE IF chunks[3] # <<STAR>> /\ ~Utf8Ok(chunks[3]) THEN SamErr("Utf8Error")
        ELSE IF pos.kind = "error" THEN SamErr(pos.msg)
        ELSE IF pos.kind = "panic" THEN SamPanic(pos.msg)
        ELSE IF chunks[5] # <<50, 53, 53>> /\ ~mapq.ok THEN SamErr(mapq.msg)
        ELSE IF chunks[7] # <<STAR>> /\ ~Utf8Ok(chunks[7]) THEN SamErr("Utf8Error")
        ELSE IF pnext.kind = "error" THEN SamErr(pnext.msg)
        ELSE IF pnext.kind = "panic" THEN SamPanic(pnext.msg)
        ELSE IF ~Utf8Ok(chunks[1]) THEN SamErr("Utf8Error")
        ELSE IF ~flag.ok THEN SamErr(flag.msg)
        ELSE IF ~tlen.ok THEN SamErr(tlen.msg)
        ELSE [kind |-> "ok", msg |-> "",
              rec |-> [query_name |-> chunks[1],
                       flag |-> flag.val,
                       ref_name |-> StarEmpty(chunks[3]),
                       pos |-> pos.opt,
                       mapq |-> IF chunks[5] = <<50, 53, 53>> THEN None ELSE Some(mapq.val),
                       cigar |-> StarEmpty(chunks[6]),
                       rnext |-> StarEmpty(chunks[7]),
                       pnext |-> pnext.opt,
                       tlen |-> tlen.val,
                       seq |-> StarEmpty(chunks[10]),
                       qual |-> StarEmpty(chunks[11]),
                       extra |-> SamJoinExtra(SubSeq(chunks, 12, Len(chunks)))]]

\* the split that leaves out the chunk after the last tab
RECURSIVE SplitTabDropLast(_)
SplitTabDropLast(line) ==
    LET p == Memchr(TAB, line) IN
    IF p = -1 THEN <<>> ELSE <<Take(line, p)>> \o SplitTabDropLast(Drop(line, p + 1))

\* line.split(|c| *c == b'\t'): the chunks between the tabs of a line
RECURSIVE SplitTab(_)
SplitTab(line) ==
    LET p == Memchr(TAB, line) IN
    IF p = -1 THEN <<line>> ELSE <<Take(line, p)>> \o SplitTab(Drop(line, p + 1))

\* b"MIDNSHP=X" and b"=ACMGRSVTWYHKDBN"
CigarLetters == <<77, 73, 68, 78, 83, 72, 80, 61, 88>>

BaseLetters == <<61, 65, 67, 77, 71, 82, 83, 86, 84, 87, 89, 72, 75, 68, 66, 78>>

\* n.to_string() as bytes
RECURSIVE DecimalBytes(_)
DecimalBytes(n) ==
    IF n < 10 THEN <<ZERO + n>> ELSE DecimalBytes(n \div 10) \o <<ZERO + (n % 10)>>

\* the loop over the n_cigar_op packed ops: each reads a little-endian u32
\* at data[start..] (an error when fewer than 4 bytes are left), renders
\* cigar_op >> 4 in decimal and the letter at cigar_op & 7, and advances
\* start by 4.  With the op's bytes b0..b3, cigar_op >> 4 is
\* (b0 >> 4) + 16 b1 + 4096 b2 + 1048576 b3 and cigar_op & 7 is b0 & 7
RECURSIVE BamCigar(_, _, _)
BamCigar(data, start, n) ==
    IF n = 0 THEN [ok |-> TRUE, cigar |-> <<>>, start |-> start]
    ELSE IF Len(data) - start < 4 THEN [ok |-> FALSE, cigar |-> <<>>, start |-> start]
    ELSE LET b0 == At(data, start)
             run == (b0 \div 16) + 16 * At(data, start + 1) + 4096 * At(data, start + 2)
                        + 1048576 * At(data, start + 3)
             rest == BamCigar(data, start + 4, n - 1)
         IN  [ok |-> rest.ok,
              cigar |-> DecimalBytes(run) \o <<CigarLetters[(b0 % 8) + 1]>> \o rest.cigar,
              start |-> rest.start]

\* seq[idx] for idx in 0..seq_len: the high nibble of data[start + idx / 2]
\* for an even idx, the low nibble for an odd one
BamSeq(data, start, seq_len) ==
    [i \in 1..seq_len |->
        LET idx == i - 1
            byte == At(data, start + (idx \div 2))
        IN  BaseLetters[(IF idx % 2 = 0 THEN byte \div 16 ELSE byte % 16) + 1]]

\* the qualities of raw_qual, each m + 33 as a u8; the addition overflows
\* for m > 222: a panic with overflow checks, the sum modulo 256 without
BamQual(raw_qual, build) ==
    IF build = "debug" /\ \E i \in 1..Len(raw_qual) : raw_qual[i] + 33 > 255
        THEN [ok |-> FALSE, qual |-> <<>>]
        ELSE [ok |-> TRUE, qual |-> [i \in 1..Len(raw_qual) |-> (raw_qual[i] + 33) % 256]]

\* the decimal digits of n >= 0
Digits(n) == [i \in 1..Len(DecimalBytes(n)) |-> DecimalBytes(n)[i] - ZERO]

\* a usize read as a little-endian u32: its value in val below 2^31, and
\* from 2^31 on its decimal digits in big; the bytes are those of the i32
\* raw, and the u32 is 2^32 + raw below 0, which is (2^32 - 1) - (-1 - raw)
Usize(n) == [val |-> n, big |-> <<>>]

UsizeAt(rb, at) ==
    LET raw == I32At(rb, at) IN
    IF raw >= 0 THEN Usize(raw)
    ELSE [val |-> 0, big |-> DigitsSub(IntMax("u32"), Digits((-1) - raw))]

\* u < n and u > n for a usize u and a number n below 2^31
UsizeLess(u, n) == u.big = <<>> /\ u.val < n

UsizeMore(u, n) == u.big # <<>> \/ u.val > n

\* u - 1 for a usize u > 0
UsizePred(u) ==
    IF u.big = <<>> THEN Usize(u.val - 1)
    ELSE IF u.big = I32MinMagnitude THEN Usize(2147483647)
    ELSE [val |-> 0, big |-> DigitsPred(u.big)]

\* raw as u64 and raw as u32 of an i32: raw itself from 0 on, and 2^w + raw
\* below 0, which is (2^w - 1) - (-1 - raw)
BamCast(raw, ty) ==
    IF raw >= 0 THEN Some(raw) ELSE SomeBig(DigitsSub(IntMax(ty), Digits((-1) - raw)))

\* a reference id against the table: "" below 0, an error past the table
BamRefName(id, references) ==
    IF id < 0 THEN [ok |-> TRUE, name |-> <<>>]
    ELSE IF id >= Len(references) THEN [ok |-> FALSE, name |-> <<>>]
    ELSE [ok |-> TRUE, name |-> references[id + 1][1]]

\* the variable-length part of extract_bam_record, on the data slice; a
\* seq_len of more than twice the data's length ends the record at the
\* check of start + seq_len / 2
BamData(f, data, ref_name, rnext, build) ==
    LET start0 == f.query_name_len
        name0 == Take(data, start0)
        query_name == IF name0 # <<>> /\ name0[Len(name0)] = 0
                          THEN Take(name0, f.query_name_len - 1) ELSE name0
        cg == BamCigar(data, start0, f.n_cigar_op)
        start1 == cg.start
        seq_len == f.seq_len.val
        start2 == start1 + ((seq_len + 1) \div 2)
        qual == BamQual(Slice(data, start2, start2 + seq_len), build)
    IN  IF start0 > Len(data) THEN SamErr("Invalid query name length")
        ELSE IF ~cg.ok THEN SamErr("Could not read u32")
        ELSE IF UsizeMore(f.seq_len, 2 * Len(data)) \/ start1 + (seq_len \div 2) >= Len(data)
            THEN SamErr("Record ended abruptly while reading sequence")
        ELSE IF start2 >= Len(data) THEN SamPanic("index out of bounds")
        ELSE IF At(data, start2) # 255 /\ start2 + seq_len > Len(data)
            THEN SamPanic("range end index out of range for slice")
        ELSE IF At(data, start2) # 255 /\ ~qual.ok
            THEN SamPanic("attempt to add with overflow")
        ELSE IF ~Utf8Ok(query_name) THEN SamErr("Utf8Error")
        ELSE [kind |-> "ok", msg |-> "",
              rec |-> [query_name |-> query_name,
                       flag |-> f.flag,
                       ref_name |-> ref_name,
                       pos |-> IF f.pos = -1 THEN None ELSE BamCast(f.pos, "u64"),
                       mapq |-> IF f.mapq = 255 THEN None ELSE Some(f.mapq),
                       cigar |-> cg.cigar,
                       rnext |-> rnext,
                       pnext |-> IF f.pnext = -1 THEN None ELSE BamCast(f.pnext, "u32"),
                       tlen |-> f.tlen,
                       seq |-> BamSeq(data, start1, seq_len),
                       qual |-> IF At(data, start2) = 255 THEN <<>> ELSE qual.qual,
                       extra |-> <<>>]]

\* the fixed fields of a record, read in turn from the 32 bytes after the
\* length prefix (the two bytes of the index bin at [10..12] are skipped)
BamFixed(reader) ==
    [ref_id |-> I32At(reader, 0), pos |-> I32At(reader, 4),
     query_name_len |-> At(reader, 8), mapq |-> At(reader, 9),
     n_cigar_op |-> U16At(reader, 12), flag |-> U16At(reader, 14),
     seq_len |-> UsizeAt(reader, 16), rnext_id |-> I32At(reader, 20),
     pnext |-> I32At(reader, 24), tlen |-> I32At(reader, 28)]

\* extract_bam_record(reader, record_len, references), reader the bytes of
\* the source after the length prefix.  Each extract fails when the source
\* ends before its bytes: the first reference id needs 4, the fields up to
\* the next reference id 24, the fixed fields 32, the data record_len
extract_bam_record(reader, record_len, references, build) ==
    LET n == Len(reader)
        ref == BamRefName(I32At(reader, 0), references)
        rnext == BamRefName(I32At(reader, 20), references)
    IN  IF UsizeLess(record_len, 32) THEN SamErr("Record is unexpectedly short")
        ELSE IF n < 4 THEN SamErr("Could not extract")
        ELSE IF ~ref.ok THEN SamErr("Invalid reference sequence ID")
        ELSE IF n < 24 THEN SamErr("Could not extract")
        ELSE IF ~rnext.ok THEN SamErr("Invalid next reference sequence ID")
        ELSE IF n < 32 THEN SamErr("Could not extract")
        ELSE IF UsizeMore(record_len, n) THEN SamErr("Could not extract slice")
        ELSE BamData(BamFixed(reader), Slice(reader, 32, record_len.val), ref.name,
                     rnext.name, build)

\* what BamState::get returns: the reference table and the bytes it used
BamStateResult(ok, msg, references, consumed) ==
    [ok |-> ok, msg |-> msg, references |-> references, consumed |-> consumed]

\* the loop over the n declared references, from offset at: name_len, the
\* name without one trailing NUL (it must be UTF-8), the length; n and the
\* length are kept as the usize they are
RECURSIVE BamReferences(_, _, _, _)
BamReferences(rb, at, n, references) ==
    LET name_len == UsizeAt(rb, at).val
        raw_ref_name == Slice(rb, at + 4, at + 4 + name_len)
        ref_name == IF raw_ref_name # <<>> /\ raw_ref_name[name_len] = 0
                        THEN Take(raw_ref_name, name_len - 1) ELSE raw_ref_name
    IN  IF n = Usize(0) THEN BamStateResult(TRUE, "", references, at)
        ELSE IF Len(rb) - at < 4 THEN BamStateResult(FALSE, "Could not extract", <<>>, at)
        ELSE IF UsizeMore(UsizeAt(rb, at), Len(rb) - (at + 4))
            THEN BamStateResult(FALSE, "Could not extract slice", <<>>, at)
        ELSE IF ~Utf8Ok(ref_name) THEN BamStateResult(FALSE, "Utf8Error", <<>>, at)
        ELSE IF Len(rb) - (at + 4 + name_len) < 4
            THEN BamStateResult(FALSE, "Could not extract", <<>>, at)
        ELSE BamReferences(rb, at + 8 + name_len, UsizePred(n),
                           Append(references, <<ref_name, UsizeAt(rb, at + 4 + name_len)>>))

\* BamState::get on the bytes rb of a source: the magic, the length of the
\* header text and the text (the result of its extract is dropped: a text
\* that runs past the source leaves the bytes where they are), the number
\* of references and the references
BamStateGet(rb) ==
    LET header_len == UsizeAt(rb, 4)
        at == IF UsizeMore(header_len, Len(rb) - 8) THEN 8 ELSE 8 + header_len.val
    IN  IF Len(rb) < 4 THEN BamStateResult(FALSE, "Could not extract slice", <<>>, 0)
        ELSE IF Take(rb, 4) # MagicBam THEN BamStateResult(FALSE, "Not a valid BAM file", <<>>, 0)
        ELSE IF Len(rb) < 8 THEN BamStateResult(FALSE, "Could not extract", <<>>, 0)
        ELSE IF Len(rb) - at < 4 THEN BamStateResult(FALSE, "Could not extract", <<>>, 0)
        ELSE BamReferences(rb, at + 4, UsizeAt(rb, at), <<>>)

(***************************************************************************)
(* Inputs of the SAM and BAM readers: alignments written once as BAM       *)
(* records and once as SAM lines, BAM records with arbitrary fields and    *)
(* data, and SAM lines with arbitrary position texts and field counts.     *)
(***************************************************************************)
MaxBases == 3
MaxData == 5
MaxDigits == 2

\* an alignment: name, bases, with qualities or without, one cigar op or
\* none (run 0 for none), 0-based position (-1 for none), auxiliary bytes
QNames == {<<114>>, <<114, 50>>}

AlignmentBases == {65, 67, 78}

AuxBytes == {<<>>, <<88, 88, 65, 33>>}

Alignments ==
    {[qname |-> q, seq |-> s, has_qual |-> hq, run |-> r, pos |-> p, aux |-> a] :
        q \in QNames, s \in SeqsUpTo(AlignmentBases, MaxBases),
        hq \in BOOLEAN, r \in {0, 2}, p \in {-1, 0}, a \in AuxBytes}

\* the index of a base letter in b"=ACMGRSVTWYHKDBN"
BaseNibble(c) == (CHOOSE i \in 1..16 : BaseLetters[i] = c) - 1

\* bases packed two per byte, high nibble first
RECURSIVE BamPack(_)
BamPack(seq) ==
    IF seq = <<>> THEN <<>>
    ELSE IF Len(seq) = 1 THEN <<16 * BaseNibble(seq[1])>>
    ELSE <<16 * BaseNibble(seq[1]) + BaseNibble(seq[2])>> \o BamPack(Drop(seq, 2))

\* the qualities of an alignment: 'I' (Phred 40) for every base
AlignmentQual(al) == IF al.has_qual THEN [i \in 1..Len(al.seq) |-> 73] ELSE <<>>

\* the BAM record of an alignment (section 4.4 of the spec: name with NUL,
\* cigar ops, packed bases, qualities or 0xFF bytes, auxiliary data)
BamFrameOf(al) ==
    LET ql == AlignmentQual(al)
        data == al.qname \o <<0>>
                \o (IF al.run = 0 THEN <<>> ELSE <<16 * al.run, 0, 0, 0>>)
                \o BamPack(al.seq)
                \o [i \in 1..Len(al.seq) |-> IF ql = <<>> THEN 255 ELSE ql[i] - 33]
                \o al.aux
    IN  [record_len |-> 32 + Len(data), ref_id |-> -1, pos |-> al.pos,
         query_name_len |-> Len(al.qname) + 1, mapq |-> 255,
         n_cigar_op |-> IF al.run = 0 THEN 0 ELSE 1, flag |-> 4,
         seq_len |-> Len(al.seq), rnext_id |-> -1, pnext |-> -1, tlen |-> 0,
         avail |-> data]

\* fields joined with tabs
RECURSIVE JoinTab(_)
JoinTab(cs) ==
    IF cs = <<>> THEN <<>>
    ELSE IF Len(cs) = 1 THEN cs[1]
    ELSE cs[1] \o <<TAB>> \o JoinTab(Tail(cs))

OrStar(text) == IF text = <<>> THEN <<STAR>> ELSE text

\* the SAM line of an alignment
SamLineOf(al) ==
    JoinTab(<<al.qname, <<52>>, <<STAR>>, DecimalBytes(al.pos + 1), <<50, 53, 53>>,
              IF al.run = 0 THEN <<STAR>> ELSE DecimalBytes(al.run) \o <<77>>,
              <<STAR>>, <<ZERO>>, <<ZERO>>, OrStar(al.seq), OrStar(AlignmentQual(al))>>)

\* r, ACN, no qualities, unplaced
FixedAlignment ==
    [qname |-> <<114>>, seq |-> <<65, 67, 78>>, has_qual |-> FALSE, run |-> 0, pos |-> -1,
     aux |-> <<>>]

AlignmentLists ==
    {<<a>> : a \in Alignments} \cup {<<a, FixedAlignment>> : a \in Alignments}
        \cup {<<FixedAlignment, a>> : a \in Alignments}

\* BAM records with arbitrary counts and data: a declared length one short
\* of the fixed fields, exact for the data, or one byte past the data
BamFuzzBytes == {0, 18, 255}

BamFuzzFrames ==
    {[record_len |-> rl, ref_id |-> -1, pos |-> -1, query_name_len |-> ql, mapq |-> 255,
      n_cigar_op |-> nc, flag |-> 4, seq_len |-> sl, rnext_id |-> -1, pnext |-> -1,
      tlen |-> 0, avail |-> d] :
        ql \in 0..2, nc \in 0..1, sl \in 0..MaxBases,
        d \in SeqsUpTo(BamFuzzBytes, MaxData),
        rl \in {31, 32, 33}}

\* the declared length of a fuzzed record is relative to its data
BamFuzzLen(f) == [f EXCEPT !.record_len = IF @ = 31 THEN 31 ELSE @ + Len(f.avail)]

\* records with every reference id around a table of one or two names
BamRefFrames ==
    {[BamFrameOf(FixedAlignment) EXCEPT !.ref_id = r, !.rnext_id = n] :
        r \in -2..2, n \in -2..2}

\* records with positions at the ends of i32 and around 0
BamPositions == {-2147483647 - 1, -2, -1, 0, 3}

BamPosFrames ==
    {[BamFrameOf(FixedAlignment) EXCEPT !.pos = p, !.pnext = q] :
        p \in BamPositions, q \in BamPositions}

\* records whose declared length, or whose sequence length, is 2^32 - 1
\* (written as the i32 of the same bytes, -1)
BamLenFrames ==
    {[BamFrameOf(FixedAlignment) EXCEPT !.record_len = -1],
     [BamFrameOf(FixedAlignment) EXCEPT !.seq_len = -1]}

\* the bytes of a record: the length prefix, the fixed fields (index bin
\* 0), the data
BamFrameBytes(f) ==
    Le32(f.record_len) \o Le32(f.ref_id) \o Le32(f.pos) \o <<f.query_name_len, f.mapq, 0, 0>>
        \o Le16(f.n_cigar_op) \o Le16(f.flag) \o Le32(f.seq_len) \o Le32(f.rnext_id)
        \o Le32(f.pnext) \o Le32(f.tlen) \o f.avail

RECURSIVE BamBytes(_)
BamBytes(frames) ==
    IF frames = <<>> THEN <<>> ELSE BamFrameBytes(frames[1]) \o BamBytes(Tail(frames))

\* the little-endian bytes of a usize that fits a u32
LeUsize(u) ==
    IF u.big = <<>> THEN Le32(u.val)
    ELSE LET d == DigitsSub(IntMax("u32"), u.big)
         IN  Le32((-1) - DigitsValue([i \in 1..Len(d) |-> ZERO + d[i]]))

\* the bytes of a reference table as written: name_len, name, length
RECURSIVE BamRefBytes(_)
BamRefBytes(refs) ==
    IF refs = <<>> THEN <<>>
    ELSE Le32(Len(refs[1][1])) \o refs[1][1] \o LeUsize(refs[1][2])
             \o BamRefBytes(Tail(refs))

\* the head of a BAM source: magic, header text, reference table
BamHeadOf(text, refs) ==
    MagicBam \o Le32(Len(text)) \o text \o Le32(Len(refs)) \o BamRefBytes(refs)

\* "chr1\0" of length 1000 under the header text "@HD": 28 bytes
TestReferences == <<<<<<99, 104, 114, 49, 0>>, Usize(1000)>>>>

TestBamHead == BamHeadOf(<<64, 72, 68>>, TestReferences)

\* heads with two references ("a\0" and "b"), with none and no text, with
\* a name that is no UTF-8, with a reference of length 2^32 - 1, with
\* 2^32 - 1 references declared and none written, and with the magic of
\* another version
BamHeads ==
    {TestBamHead,
     BamHeadOf(<<64, 72, 68>>, <<<<<<97, 0>>, Usize(5)>>, <<<<98>>, Usize(7)>>>>),
     BamHeadOf(<<>>, <<>>),
     BamHeadOf(<<>>, <<<<<<255>>, Usize(1)>>>>),
     BamHeadOf(<<>>, <<<<<<99, 0>>, UsizeAt(<<255, 255, 255, 255>>, 0)>>>>),
     MagicBam \o Zeros(4) \o <<255, 255, 255, 255>>,
     <<66, 65, 77, 2>> \o Zeros(8)}

\* a source that ends early: every proper prefix of a head and one record
BamCutSources ==
    LET whole == TestBamHead \o BamFrameBytes(BamFrameOf(FixedAlignment))
    IN  {Take(whole, k) : k \in 0..(Len(whole) - 1)}

\* SAM lines with arbitrary position and next-position texts
NumBytes == {ZERO, 49, 50, PLUS, 45}

\* texts around the ends of the integer types: 2147483648, 4294967295,
\* 4294967296, 18446744073709551616, and the byte FF, which is no UTF-8
EdgeTexts ==
    {<<50, 49, 52, 55, 52, 56, 51, 54, 52, 56>>,
     <<52, 50, 57, 52, 57, 54, 55, 50, 57, 53>>,
     <<52, 50, 57, 52, 57, 54, 55, 50, 57, 54>>,
     <<49, 56, 52, 52, 54, 55, 52, 52, 48, 55, 51, 55, 48, 57, 53, 53, 49, 54, 49, 54>>,
     <<255>>}

NumTexts == SeqsUpTo(NumBytes, MaxDigits) \cup EdgeTexts

SamFields(p, q) ==
    <<<<114>>, <<ZERO>>, <<STAR>>, p, <<50, 53, 53>>, <<STAR>>, <<STAR>>, q, <<ZERO>>,
      <<STAR>>, <<STAR>>, <<78, 77>>, <<88>>>>

SamFuzzLines ==
    {JoinTab(Take(SamFields(p, q), 11)) : p \in NumTexts, q \in NumTexts}
        \cup {JoinTab(Take(SamFields(<<49>>, <<ZERO>>), k)) : k \in 1..13}

(***************************************************************************)
(* The BAM and SAM readers: each next() decodes the following record until *)
(* the input ends ("done") or a record fails ("error", "panic").           *)
(***************************************************************************)
\* an error as extract_bam_record builds it: no byte and no record
BamNoTag == [byte |-> None, record |-> None]

\* the read of the source that fails: the one the refill of the n-th call
\* of get makes (n from 0), or none (-1)
BamFailures == {-1, 0, 1}

BamReadFailed == "read failed"

SbStart ==
    /\ sb_build \in {"debug", "release"}
    /\ \/ /\ sb_als \in AlignmentLists
          /\ bam_stream = [i \in 1..Len(sb_als) |-> BamFrameOf(sb_als[i])]
          /\ bam_src = TestBamHead \o BamBytes(bam_stream)
          /\ sam_lines = [i \in 1..Len(sb_als) |-> SamLineOf(sb_als[i])]
       \/ /\ sb_als = <<>>
          /\ bam_stream \in {<<BamFuzzLen(f)>> : f \in BamFuzzFrames}
                                \cup {<<f>> : f \in BamPosFrames \cup BamLenFrames}
                                \cup {<<BamFrameOf(FixedAlignment), f>> : f \in BamRefFrames}
          /\ bam_src = TestBamHead \o BamBytes(bam_stream)
          /\ sam_lines = <<>>
       \/ /\ sb_als = <<>>
          /\ bam_stream \in {<<>>} \cup {<<f>> : f \in BamRefFrames}
          /\ bam_src \in {h \o BamBytes(bam_stream) : h \in BamHeads}
          /\ sam_lines = <<>>
       \/ /\ sb_als = <<>>
          /\ bam_src \in BamCutSources
          /\ bam_stream = IF Len(bam_src) > Len(TestBamHead)
                              THEN <<BamFrameOf(FixedAlignment)>> ELSE <<>>
          /\ sam_lines = <<>>
       \/ /\ sb_als = <<>>
          /\ bam_stream = <<>>
          /\ bam_src = TestBamHead
          /\ sam_lines \in {<<l>> : l \in SamFuzzLines}
    /\ bam_fail \in BamFailures
    /\ bam_refs = <<>>
    /\ bam_pc = "setup" /\ bam_recs = <<>> /\ bam_err = ""
    /\ bam_pos = <<0, 0>> /\ bam_tag = BamNoTag
    /\ sam_pc = "ready" /\ sam_recs = <<>> /\ sam_err = ""

SbIdle ==
    /\ sb_build = "debug" /\ sb_als = <<>>
    /\ bam_refs = <<>> /\ bam_stream = <<>> /\ bam_src = <<>> /\ sam_lines = <<>>
    /\ bam_fail = -1
    /\ bam_pc = "done" /\ bam_recs = <<>> /\ bam_err = ""
    /\ bam_pos = <<0, 0>> /\ bam_tag = BamNoTag
    /\ sam_pc = "done" /\ sam_recs = <<>> /\ sam_err = ""

\* BamReader::new: BamState::get reads the head of the source; the records
\* start at the byte after it
BamReaderNew ==
    /\ bam_pc = "setup"
    /\ LET st == BamStateGet(bam_src) IN
        IF st.ok
            THEN /\ bam_pc' = "ready" /\ bam_refs' = st.references
                 /\ bam_pos' = <<st.consumed, 0>>
                 /\ UNCHANGED bam_err
            ELSE /\ bam_pc' = "error" /\ bam_err' = st.msg
                 /\ UNCHANGED <<bam_refs, bam_pos>>
    /\ UNCHANGED <<sb_build, sb_als, bam_stream, bam_src, bam_fail, bam_recs, bam_tag,
                   sam_lines, sam_pc, sam_recs, sam_err, notSb>>

\* the map_err closure of Option<BamRecord>::get: e.byte and e.record from
\* the counters captured before the length prefix was read
BamErrorTag(buffer_pos) ==
    [byte |-> Some(buffer_pos[1]), record |-> Some(buffer_pos[2] + 1)]

\* Option<BamRecord>::get: the refill (the error of its read is returned
\* as it is), None at the end of the source, else the length prefix (its
\* error is not mapped either) and the record after it, whose error gets
\* the position; an error ends the iteration.  A returned record has
\* consumed its length prefix and record_len bytes and is counted.
BamGet ==
    /\ bam_pc = "ready"
    /\ LET rb == Drop(bam_src, bam_pos[1])
           buffer_pos == bam_pos
           rec_len == UsizeAt(rb, 0)
           r == extract_bam_record(Drop(rb, 4), rec_len, bam_refs, sb_build)
       IN  IF bam_fail = Len(bam_recs)
               THEN /\ bam_pc' = "error" /\ bam_err' = BamReadFailed
                    /\ UNCHANGED <<bam_recs, bam_pos, bam_tag>>
           ELSE IF rb = <<>>
               THEN bam_pc' = "done" /\ UNCHANGED <<bam_recs, bam_err, bam_pos, bam_tag>>
           ELSE IF Len(rb) < 4
               THEN /\ bam_pc' = "error" /\ bam_err' = "Could not extract"
                    /\ UNCHANGED <<bam_recs, bam_pos, bam_tag>>
           ELSE IF r.kind = "ok"
               THEN /\ bam_recs' = Append(bam_recs, r.rec)
                    /\ bam_pos' = <<bam_pos[1] + 4 + rec_len.val, bam_pos[2] + 1>>
                    /\ UNCHANGED <<bam_pc, bam_err, bam_tag>>
           ELSE /\ bam_pc' = r.kind /\ bam_err' = r.msg
                /\ bam_tag' = IF r.kind = "error" THEN BamErrorTag(buffer_pos) ELSE BamNoTag
                /\ UNCHANGED <<bam_recs, bam_pos>>
    /\ UNCHANGED <<sb_build, sb_als, bam_refs, bam_stream, bam_src, bam_fail, sam_lines,
                   sam_pc, sam_recs, sam_err, notSb>>

\* Option<SamRecord>::get: None at the end of the input, else the next line
\* split on tabs and decoded by strs_to_sam
SamGet ==
    /\ sam_pc = "ready"
    /\ IF Len(sam_recs) = Len(sam_lines)
           THEN sam_pc' = "done" /\ UNCHANGED <<sam_recs, sam_err>>
           ELSE LET r == strs_to_sam(SplitTab(sam_lines[Len(sam_recs) + 1]), sb_build)
                IN  IF r.kind = "ok"
                        THEN sam_recs' = Append(sam_recs, r.rec)
                                /\ UNCHANGED <<sam_pc, sam_err>>
                        ELSE sam_pc' = r.kind /\ sam_err' = r.msg /\ UNCHANGED sam_recs
    /\ UNCHANGED <<sb_build, sb_als, bam_refs, bam_stream, bam_src, bam_fail, sam_lines,
                   bam_pc, bam_recs, bam_err, bam_pos, bam_tag, notSb>>

SbNext == BamReaderNew \/ BamGet \/ SamGet

(***************************************************************************)
(* parsers/inficon.rs: InficonRecord::parse and get.  Times are kept as    *)
(* the integer the code divides by 60000, m/z values as the integer it     *)
(* divides by 100, intensities as the four bytes of the f32.               *)
(***************************************************************************)
InficonStateOf(mz_segments, data_left) ==
    [mz_segments |-> mz_segments, data_left |-> data_left, cur_time |-> 0, cur_mz |-> 0,
     cur_intensity |-> <<0, 0, 0, 0>>, cur_segment |-> 0, mzs_left |-> 0]

\* what parse returns: Ok(true) "record", Ok(false) "end", Err "error"
\* (incomplete when an extract ran out of bytes), or a panic; the state as
\* the call leaves it, and what it added to consumed
InficonResult(kind, incomplete, msg, state, consumed) ==
    [kind |-> kind, incomplete |-> incomplete, msg |-> msg, state |-> state,
     consumed |-> consumed]

\* a subtraction that goes below 0
PlainSub(a, b) == a - b

\* usize::saturating_sub
SaturatingSub(a, b) == IF a > b THEN a - b ELSE 0

\* from the intensity on: rb[con..] holds the f32, mzs_left is the local
\* variable, st the state with the header's assignments made
InficonParseIntensity(rb, con, mzs_left, st) ==
    LET st1 == [st EXCEPT !.cur_intensity = Slice(rb, con, con + 4)]
        cur_mz_segment == st.mz_segments[st.cur_segment + 1]
        idx == Len(cur_mz_segment) - mzs_left
    IN  IF Len(rb) - con < 4
            THEN InficonResult("error", TRUE, "Could not extract f32", st, 0)
        ELSE IF mzs_left > Len(cur_mz_segment)
            THEN InficonResult("error", FALSE, "Invalid m/z segment", st1, 0)
        ELSE IF idx >= Len(cur_mz_segment)
            THEN InficonResult("panic", FALSE, "index out of bounds", st1, 0)
        ELSE InficonResult("record", FALSE, "",
                [st1 EXCEPT !.cur_mz = cur_mz_segment[idx + 1],
                            !.mzs_left = mzs_left - 1,
                            !.data_left = SaturatingSub(st.data_left, con + 4)],
                con + 4)

\* a scan header read without comparing the m/z count with the segment
InficonParseHeaderAnyCount(rb, st) ==
    LET st1 == [st EXCEPT !.cur_time = I32At(rb, 4)]
        n_mzs == U16At(rb, 10)
        st2 == [st1 EXCEPT !.cur_segment = U16At(rb, 14) \div 16]
    IN  IF Len(rb) < 8 THEN InficonResult("error", TRUE, "Could not extract", st, 0)
        ELSE IF Len(rb) < 16 THEN InficonResult("error", TRUE, "Could not extract", st1, 0)
        ELSE IF st2.cur_segment >= Len(st.mz_segments)
            THEN InficonResult("error", FALSE, "Invalid segment number specified", st2, 0)
        ELSE InficonParseIntensity(rb, 16, n_mzs, st2)

\* the scan header read when mzs_left is 0: cur_time is assigned once the
\* first 8 bytes are there, cur_segment once all 16 are
InficonParseHeader(rb, st) ==
    LET st1 == [st EXCEPT !.cur_time = I32At(rb, 4)]
        n_mzs == U16At(rb, 10)
        st2 == [st1 EXCEPT !.cur_segment = U16At(rb, 14) \div 16]
    IN  IF Len(rb) < 8 THEN InficonResult("error", TRUE, "Could not extract", st, 0)
        ELSE IF Len(rb) < 16 THEN InficonResult("error", TRUE, "Could not extract", st1, 0)
        ELSE IF st2.cur_segment >= Len(st.mz_segments)
            THEN InficonResult("error", FALSE, "Invalid segment number specified", st2, 0)
        ELSE IF n_mzs # Len(st.mz_segments[st2.cur_segment + 1])
            THEN InficonResult("error", FALSE,
                               "Number of intensities doesn't match number of mzs", st2, 0)
        ELSE InficonParseIntensity(rb, 16, n_mzs, st2)

\* a parse that reads a scan header before every intensity
InficonParseAlwaysHeader(rb, st) ==
    IF st.data_left = 0 THEN InficonResult("end", FALSE, "", st, 0)
    ELSE InficonParseHeader(rb, st)

\* InficonRecord::parse(rb, eof, consumed, state)
InficonParse(rb, st) ==
    IF st.data_left = 0 THEN InficonResult("end", FALSE, "", st, 0)
    ELSE IF st.mzs_left = 0 THEN InficonParseHeader(rb, st)
    ELSE InficonParseIntensity(rb, 0, st.mzs_left, st)

\* InficonRecord::get
InficonGet(st) == [time |-> st.cur_time, mz |-> st.cur_mz, intensity |-> st.cur_intensity]

(***************************************************************************)
(* Inputs of the Inficon reader: segment tables, and scan data written     *)
(* from scans, cut short or not.                                           *)
(***************************************************************************)
MaxMzs == 2
MaxSelector == 2

\* the m/z tables setup can leave, an empty table and empty lists included
SegmentTables ==
    {<<>>, <<<<>>>>, <<<<100>>>>, <<<<100, 200>>>>, <<<<100>>, <<>>>>,
     <<<<100, 200>>, <<300>>>>}

\* scan times in milliseconds: 5, and the i32 below 0 with the bytes
\* FF FF FF FF, 94 15 FF FF and 00 00 00 80
ScanTimes == {5, -1, -60012, -2147483647 - 1}

\* a scan: the m/z count and the segment of its header, how many
\* intensities follow the header, and its time
Scans ==
    [n_mzs : 0..MaxMzs, segment : 0..MaxSelector, intensities : 0..MaxMzs, time : ScanTimes]

\* scan number 1, the time, the constants 1 and 0xFFFF, selector 0x_F
ScanHeader(sc) ==
    <<1, 0, 0, 0>> \o Le32(sc.time)
        \o <<1, 0, sc.n_mzs, 0, 255, 255, 16 * sc.segment + 15, 0>>

\* 1.0f32
OneIntensity == <<0, 0, 128, 63>>

RECURSIVE Intensities(_)
Intensities(n) == IF n = 0 THEN <<>> ELSE OneIntensity \o Intensities(n - 1)

ScanBytes(sc) == ScanHeader(sc) \o Intensities(sc.intensities)

FixedScan == [n_mzs |-> 1, segment |-> 0, intensities |-> 1, time |-> 5]

ScanData ==
    LET whole == {ScanBytes(sc) : sc \in Scans}
                    \cup {ScanBytes(sc) \o ScanBytes(FixedScan) : sc \in Scans}
    IN  {Take(d, Len(d) - cut) : d \in whole, cut \in {0, 2, 6}}

\* the sizes of the reads a refill makes
InChunks == {4, 20}

(***************************************************************************)
(* The Inficon reader: next() parses on the window, gets and consumes a    *)
(* record, refills on an incomplete result before the end of the source.   *)
(***************************************************************************)
InWindow == SubSeq(in_src, in_pos + 1, in_fill)

InNoResult ==
    [before |-> InficonStateOf(<<>>, 0), window |-> <<>>,
     r |-> InficonResult("none", FALSE, "", InficonStateOf(<<>>, 0), 0)]

InStart ==
    /\ in_src \in ScanData
    /\ in_pos = 0
    /\ in_fill = 0
    /\ in_eof = FALSE
    /\ \E t \in SegmentTables, dl \in {0, 18, 20, Len(in_src)} :
          in_state = InficonStateOf(t, dl)
    /\ in_pc = "parse"
    /\ in_res = InNoResult
    /\ in_recs = <<>>

InIdle ==
    /\ in_src = <<>>
    /\ in_pos = 0
    /\ in_fill = 0
    /\ in_eof = FALSE
    /\ in_state = InficonStateOf(<<>>, 0)
    /\ in_pc = "done"
    /\ in_res = InNoResult
    /\ in_recs = <<>>

InParse ==
    /\ in_pc = "parse"
    /\ LET r == InficonParse(InWindow, in_state) IN
        /\ in_res' = [before |-> in_state, window |-> InWindow, r |-> r]
        /\ in_state' = r.state
        /\ in_pos' = in_pos + r.consumed
        /\ in_recs' = IF r.kind = "record" THEN Append(in_recs, InficonGet(r.state))
                                           ELSE in_recs
        /\ in_pc' = CASE r.kind = "record" -> "parse"
                      [] r.kind = "end" -> "done"
                      [] r.kind = "panic" -> "panic"
                      [] r.kind = "error" /\ r.incomplete /\ ~in_eof -> "refill"
                      [] OTHER -> "error"
    /\ UNCHANGED <<in_src, in_fill, in_eof, notIn>>

\* refill(): the source gives the next chunk; none left is the end of the source
InRefill ==
    /\ in_pc = "refill"
    /\ IF in_fill = Len(in_src)
        THEN in_eof' = TRUE /\ in_fill' = in_fill
        ELSE in_eof' = FALSE
                /\ \E n \in InChunks :
                      in_fill' = IF in_fill + n > Len(in_src) THEN Len(in_src) ELSE in_fill + n
    /\ in_pc' = "parse"
    /\ in_res' = InNoResult
    /\ UNCHANGED <<in_src, in_pos, in_state, in_recs, notIn>>

InNext == InParse \/ InRefill

(***************************************************************************)
(* compression.rs: decompress.  A stream is the bytes of an inner file     *)
(* (core) inside the compression containers of layers, the outermost       *)
(* first; the decoders of the compression crates take one container off.   *)
(***************************************************************************)
Containers == {"Gzip", "Bzip", "Lzma", "Zstd"}

\* the bytes a container starts with: its magic, then header bytes
ContainerPrefix(kind) ==
    (CASE kind = "Gzip" -> <<31, 139>>
       [] kind = "Bzip" -> <<66, 90>>
       [] kind = "Lzma" -> <<253, 55>>
       [] kind = "Zstd" -> MagicZstd) \o <<8, 0, 0, 0, 0, 0, 0, 0>>

\* the first bytes read from a stream
StreamPrefix(s) == IF s.layers = <<>> THEN s.core ELSE ContainerPrefix(Head(s.layers))

\* sniff_reader_filetype: classifies the first bytes of the reader and
\* returns a reader that gives the whole stream again
sniff_reader_filetype(s) == from_magic(StreamPrefix(s))

\* MultiGzDecoder, BzDecoder, XzDecoder, ZstdDecoder over a stream: the
\* content of its outermost container; reading fails when the stream is
\* not such a container
Decoder(kind, s) ==
    IF s.layers # <<>> /\ Head(s.layers) = kind
        THEN [ok |-> TRUE, stream |-> [s EXCEPT !.layers = Tail(@)]]
        ELSE [ok |-> FALSE, stream |-> s]

DcResult(kind, stream, ftype, compression) ==
    [kind |-> kind, stream |-> stream, ftype |-> ftype, compression |-> compression]

\* decompress unwrapping as long as the type is a container
RECURSIVE decompress_all(_, _)
decompress_all(reader, feature) ==
    LET file_type == sniff_reader_filetype(reader)
        dec == Decoder(file_type.tag, reader)
    IN  IF ~feature \/ file_type.tag \notin Containers
            THEN DcResult("ok", reader, file_type, {})
        ELSE IF ~dec.ok THEN DcResult("error", reader, file_type, {})
        ELSE LET inner == decompress_all(dec.stream, feature)
             IN  [inner EXCEPT !.compression = {file_type}]

\* decompress(reader): the compression of the result is {} for None and
\* {t} for Some(t); without the "compression" feature nothing is unwrapped
decompress(reader, feature) ==
    LET file_type == sniff_reader_filetype(reader)
        dec == Decoder(file_type.tag, reader)
    IN  IF ~feature \/ file_type.tag \notin Containers
            THEN DcResult("ok", reader, file_type, {})
        ELSE IF ~dec.ok THEN DcResult("error", reader, file_type, {})
        ELSE DcResult("ok", dec.stream, sniff_reader_filetype(dec.stream), {file_type})

MaxLayers == 2

\* the start of a BAM file: "BAM\1", the header length, no references
TestBamCore == MagicBam \o <<0, 0, 0, 0, 0, 0, 0, 0>>

\* inner files: empty, FASTA, FASTQ, BAM, the bare 4-byte BAM magic, bytes
\* that start like gzip or bzip without being a container, anything else
DcCores ==
    {<<>>, <<GT, 105, LF, 65, LF>>, <<AT, 105, LF, 65, LF, PLUS, LF, 73, LF>>, TestBamCore,
     MagicBam, <<31, 139>>, <<66, 90, 104>>, MagicInficon \o <<0>>, <<120, 121, 122>>}

DcStreams ==
    [layers : SeqsUpTo(Containers, MaxLayers), core : DcCores]

DcNoResult == DcResult("none", [layers |-> <<>>, core |-> <<>>], FT("Unknown"), {})

(***************************************************************************)
(* readers/sam.rs: SamState::get, the setup of the SAM reader, over the    *)
(* window of a buffer that reads its source in chunks, followed by the     *)
(* reader's next().                                                        *)
(***************************************************************************)
\* seek_pattern(needle) on bytes rb that will not grow: advances to the
\* start of the first needle when there is one, to the end of the bytes
\* when there is none
SeekPattern(rb, needle) ==
    LET n == Len(needle)
        hits == {i \in 0..(Len(rb) - n) : Slice(rb, i, i + n) = needle}
    IN  IF hits = {} THEN [found |-> FALSE, consumed |-> Len(rb)]
        ELSE [found |-> TRUE, consumed |-> CHOOSE i \in hits : \A j \in hits : i <= j]

\* one iteration of the loop of SamState::get on a window that starts with
\* '@': seek the newline, leave the loop when there is none, else read the
\* newline too
SamHeaderLine(rb) ==
    LET s == SeekPattern(rb, <<LF>>) IN
    IF ~s.found THEN [again |-> FALSE, consumed |-> s.consumed]
                ELSE [again |-> TRUE, consumed |-> s.consumed + 1]

\* rb.extract::<NewLine>: nothing at the end of the source, else the bytes
\* up to the next newline (or to the end of the source) and what to consume
ExtractNewLine(rb) ==
    LET p == Memchr(LF, rb) IN
    IF rb = <<>> THEN [some |-> FALSE, line |-> <<>>, consumed |-> 0]
    ELSE IF p = -1 THEN [some |-> TRUE, line |-> rb, consumed |-> Len(rb)]
    ELSE [some |-> TRUE, line |-> Take(rb, p), consumed |-> p + 1]

MaxSamSrc == 5

\* the input of test_sam_no_data, two header lines, a header followed by
\* one alignment, and a header followed by an alignment whose position
\* texts are "00"
TestSamNoData == <<AT, 72, 68, TAB, 116, 101, 115, 116, LF>>

TestSamTwoHeaders == <<AT, 72, 68, LF, AT, 83, 81, LF>>

TestSamOneRecord == <<AT, 72, 68, LF>> \o JoinTab(SamFields(<<49>>, <<ZERO>>)) \o <<LF>>

TestSamZeroZero ==
    <<AT, 72, 68, LF>> \o JoinTab(Take(SamFields(<<ZERO, ZERO>>, <<ZERO, ZERO>>), 11)) \o <<LF>>

SamSources ==
    SeqsUpTo({AT, LF, 114}, MaxSamSrc)
        \cup {TestSamNoData, TestSamTwoHeaders, TestSamOneRecord, TestSamZeroZero}

\* the sizes of the reads a refill makes, and where a source can fail
ShChunks == {2, 4, 64}

ShFailures == {-1, 0, 4}

ShReadFailed == "read failed"

ShStart ==
    /\ sh_build \in {"debug", "release"}
    /\ sh_src \in SamSources
    /\ sh_fail \in {k \in ShFailures : k <= Len(sh_src)}
    /\ sh_pos = 0 /\ sh_fill = 0 /\ sh_eof = FALSE
    /\ sh_pc = "reserve" /\ sh_hdr = <<>> /\ sh_recs = <<>> /\ sh_err = ""
    /\ sh_tag = BamNoTag

ShIdle ==
    /\ sh_build = "debug" /\ sh_src = <<>> /\ sh_fail = -1
    /\ sh_pos = 0 /\ sh_fill = 0 /\ sh_eof = FALSE
    /\ sh_pc = "done" /\ sh_hdr = <<>> /\ sh_recs = <<>> /\ sh_err = ""
    /\ sh_tag = BamNoTag

\* the bytes the source gives
ShLimit == IF sh_fail < 0 THEN Len(sh_src) ELSE sh_fail

\* the window of the buffer: read and not consumed
ShWindow == SubSeq(sh_src, sh_pos + 1, sh_fill)

\* the window's end after a read of up to n bytes
ShFilled(n) == IF sh_fill + n > ShLimit THEN ShLimit ELSE sh_fill + n

\* SamState::get: rb.reserve(1)? on the new buffer reads the source once;
\* at the end of the source the read gives nothing and sets eof
ShReserve ==
    /\ sh_pc = "reserve"
    /\ IF sh_fill < ShLimit
           THEN /\ \E n \in ShChunks : sh_fill' = ShFilled(n)
                /\ sh_pc' = "setup" /\ UNCHANGED <<sh_eof, sh_err>>
       ELSE IF sh_fail >= 0
           THEN sh_pc' = "error" /\ sh_err' = ShReadFailed /\ UNCHANGED <<sh_fill, sh_eof>>
       ELSE sh_eof' = TRUE /\ sh_pc' = "setup" /\ UNCHANGED <<sh_fill, sh_err>>
    /\ UNCHANGED <<sh_build, sh_src, sh_fail, sh_pos, sh_hdr, sh_recs, sh_tag, notSh>>

\* the loop condition of SamState::get, on the window
ShHeaderAhead == ShWindow # <<>> /\ At(ShWindow, 0) = AT

\* seek_pattern has the newline in the window, or the source at its end
ShSeekEnds ==
    \/ Memchr(LF, ShWindow) # -1
    \/ sh_fill = Len(sh_src) /\ sh_fail < 0

\* SamState::get: an iteration of while !rb.is_empty() && rb[0] == b'@'
\* whose seek_pattern ends on this window
ShSkipHeader ==
    /\ sh_pc = "setup"
    /\ ShHeaderAhead /\ ShSeekEnds
    /\ LET r == SamHeaderLine(ShWindow) IN
        /\ sh_pos' = sh_pos + r.consumed
        /\ sh_hdr' = Append(sh_hdr, sh_pos + r.consumed)
        /\ sh_eof' = IF r.again THEN sh_eof ELSE TRUE
        /\ sh_pc' = IF r.again THEN "setup" ELSE "ready"
    /\ UNCHANGED <<sh_build, sh_src, sh_fail, sh_fill, sh_recs, sh_err, sh_tag, notSh>>

\* SamState::get: seek_pattern finds no newline in the window and reads
\* the source again
ShSeekRefill ==
    /\ sh_pc = "setup"
    /\ ShHeaderAhead /\ ~ShSeekEnds
    /\ IF sh_fill < ShLimit
           THEN /\ \E n \in ShChunks : sh_fill' = ShFilled(n)
                /\ UNCHANGED <<sh_pc, sh_err>>
           ELSE sh_pc' = "error" /\ sh_err' = ShReadFailed /\ UNCHANGED sh_fill
    /\ UNCHANGED <<sh_build, sh_src, sh_fail, sh_pos, sh_eof, sh_hdr, sh_recs, sh_tag, notSh>>

\* SamState::get: the loop condition fails and the state is returned
ShSetupDone ==
    /\ sh_pc = "setup"
    /\ ~ShHeaderAhead
    /\ sh_pc' = "ready"
    /\ UNCHANGED <<sh_build, sh_src, sh_fail, sh_pos, sh_fill, sh_eof, sh_hdr, sh_recs, sh_err,
                   sh_tag, notSh>>

\* Option<SamRecord>::get: the extract of the line reads the source until
\* the newline or the end; the line is split on tabs and decoded, an error
\* of the decoding tagged with the counters captured before the line
ShGet ==
    /\ sh_pc = "ready"
    /\ LET rb == SubSeq(sh_src, sh_pos + 1, ShLimit)
           buffer_pos == <<sh_pos, Len(sh_recs)>>
           l == ExtractNewLine(rb)
           r == strs_to_sam(SplitTab(l.line), sh_build)
           read == IF sh_pos + l.consumed > sh_fill THEN sh_pos + l.consumed ELSE sh_fill
       IN  IF Memchr(LF, rb) = -1 /\ sh_fail >= 0
               THEN /\ sh_pc' = "error" /\ sh_err' = ShReadFailed
                    /\ sh_fill' = ShLimit
                    /\ UNCHANGED <<sh_pos, sh_eof, sh_recs, sh_tag>>
           ELSE IF ~l.some
               THEN /\ sh_pc' = "done" /\ sh_eof' = TRUE
                    /\ UNCHANGED <<sh_pos, sh_fill, sh_recs, sh_err, sh_tag>>
           ELSE /\ sh_pos' = sh_pos + l.consumed
                /\ sh_fill' = read
                /\ sh_eof' = IF Memchr(LF, rb) = -1 THEN TRUE ELSE sh_eof
                /\ IF r.kind = "ok"
                       THEN sh_recs' = Append(sh_recs, r.rec)
                               /\ UNCHANGED <<sh_pc, sh_err, sh_tag>>
                       ELSE /\ sh_pc' = r.kind /\ sh_err' = r.msg
                            /\ sh_tag' = IF r.kind = "error" THEN BamErrorTag(buffer_pos)
                                                              ELSE BamNoTag
                            /\ UNCHANGED sh_recs
    /\ UNCHANGED <<sh_build, sh_src, sh_fail, sh_hdr, notSh>>

ShNext == ShReserve \/ ShSkipHeader \/ ShSeekRefill \/ ShSetupDone \/ ShGet

(***************************************************************************)
(* entab-js/src/lib.rs: Reader::next over an underlying RecordReader that  *)
(* yields the records of js_source and then ends, or fails.                *)
(***************************************************************************)
\* headers.iter().zip(value.into_iter()).collect::<BTreeMap>(): a name is
\* paired with the value of its position, as far as both lists go, and the
\* last pair of a name wins
JsZip(headers, value) ==
    LET n == IF Len(headers) < Len(value) THEN Len(headers) ELSE Len(value)
        last(h) == CHOOSE i \in 1..n : headers[i] = h /\ \A j \in 1..n : headers[j] = h => j <= i
    IN  [h \in {headers[i] : i \in 1..n} |-> value[last(h)]]

\* what next() returns: Ok(NextRecord {value, done}) with the Option as a
\* set, or Err
JsReturn(kind, value, done) == [kind |-> kind, value |-> value, done |-> done]

\* Reader::next on the result rec of self.reader.next_record()
JsReaderNext(headers, rec) ==
    IF rec.kind = "error" THEN JsReturn("error", {}, FALSE)
    ELSE IF rec.kind = "record" THEN JsReturn("ok", {JsZip(headers, rec.value)}, FALSE)
    ELSE JsReturn("ok", {}, FALSE)

MaxRecords == 3
MaxCalls == 5

\* the records of a FASTQ reader: id, sequence, quality
JsValues == {<<"r1", "A", "!">>, <<"r2", "AC", "!!">>, <<"", "", "">>}

JsHeaders == <<"id", "sequence", "quality">>

\* next_record() of the underlying reader: the next record, an error after
\* the last one when the input is broken there, else None from then on
JsNextRecord ==
    IF js_given < Len(js_source) THEN [kind |-> "record", value |-> js_source[js_given + 1]]
    ELSE IF js_fail THEN [kind |-> "error", value |-> <<>>]
    ELSE [kind |-> "none", value |-> <<>>]

JsStart ==
    /\ js_headers = JsHeaders
    /\ js_source \in SeqsUpTo(JsValues, MaxRecords)
    /\ js_fail \in BOOLEAN
    /\ js_given = 0 /\ js_calls = 0
    /\ js_out = JsReturn("none", {}, FALSE)

JsIdle ==
    /\ js_headers = <<>> /\ js_source = <<>> /\ js_fail = FALSE
    /\ js_given = 0 /\ js_calls = 0
    /\ js_out = JsReturn("none", {}, FALSE)

\* a caller that pulls until done or an error
JsPull ==
    /\ js_calls < MaxCalls
    /\ js_out.kind # "error" /\ ~js_out.done
    /\ js_out' = JsReaderNext(js_headers, JsNextRecord)
    /\ js_given' = IF JsNextRecord.kind = "record" THEN js_given + 1 ELSE js_given
    /\ js_calls' = js_calls + 1
    /\ UNCHANGED <<js_headers, js_source, js_fail, notJs>>

JsNext == JsPull

(***************************************************************************)
(* parsers/inficon.rs: InficonState::parse on the bytes of a file.         *)
(* start_mz and end_mz are u32: a u32 v is kept as v - 2^31, which keeps   *)
(* the order and the differences; m/z values are kept as the integer the   *)
(* code divides by 100.                                                    *)
(***************************************************************************)
\* the u32 0, and the u32 n for n < 2^31
U32Zero == -2147483647 - 1

U32(n) == U32Zero + n

\* the number n < 2^31 that the u32 v is
U32Small(v) == v - U32Zero

\* u32::MAX
U32Max == 2147483647

\* 4_000_000_000u32
MaxEndMz == 1852516352

\* the little-endian u32 at rb[at..], and the little-endian bytes of a u32
U32At(rb, at) ==
    At(rb, at) + 256 * At(rb, at + 1) + 65536 * At(rb, at + 2)
        + 16777216 * (At(rb, at + 3) - 128)

Le32U(v) ==
    <<v % 256, (v \div 256) % 256, (v \div 65536) % 256, (v \div 16777216) + 128>>

\* a + n in u32 for a small n: the sum, and whether it left the u32 range
U32Add(a, n) ==
    IF a > U32Max - n
        THEN [v |-> (((a - U32Max) + n) - 2) - U32Max, overflow |-> TRUE]
        ELSE [v |-> a + n, overflow |-> FALSE]

\* end_mz - start_mz >= 200_000u32, for start_mz < end_mz
RangeTooBig(start_mz, end_mz) ==
    IF end_mz < U32(200000) THEN FALSE ELSE end_mz - 200000 >= start_mz

MaxSegments == 10000
MaxMzRanges == 100000

\* the pattern in front of the list of m/z ranges, b"\xFF\xFF\xFF\xFFHapsGPIR"
\* and b"HapsScan"
MzListMarker == <<255, 255, 255, 255>> \o Zeros(32) \o <<246, 255, 255, 255, 0, 0, 0, 0>>

ScanMarker == <<255, 255, 255, 255, 72, 97, 112, 115, 71, 80, 73, 82>>

HapsScan == <<72, 97, 112, 115, 83, 99, 97, 110>>

IsResult(kind, msg, pushed) == [kind |-> kind, msg |-> msg, pushed |-> pushed]

\* what a part of the setup returns: an error, or the offset it read to
\* and the number it read
IsPart(ok, msg, con, n) == [ok |-> ok, msg |-> msg, con |-> con, n |-> n]

\* the setup up to n_segments: the magic, the pattern in front of the m/z
\* list (sought with eof set, so None when it is not in the file), 148
\* bytes from the start of the pattern, the count
InficonListStart(rb) ==
    LET s == SeekPattern(Drop(rb, 4), MzListMarker)
        con == 4 + s.consumed + 148
    IN  IF Len(rb) < 4 THEN IsPart(FALSE, "Could not extract", 0, 0)
        ELSE IF Take(rb, 4) # <<4, 3, 2, 1>>
            THEN IsPart(FALSE, "Inficon file has bad magic bytes", 0, 0)
        ELSE IF ~s.found THEN IsPart(FALSE, "Could not find m/z header list", 0, 0)
        ELSE IF Len(rb) < con + 4 THEN IsPart(FALSE, "Could not extract", 0, 0)
        ELSE IsPart(TRUE, "", con + 4, U32At(rb, con))

\* the setup after the segments, from offset at: the pattern in front of
\* the scan data, 180 bytes from its start, data_length, 8 bytes, the 8
\* bytes that must be "HapsScan", 56 bytes
InficonScanStart(rb, at) ==
    LET s == SeekPattern(Drop(rb, at), ScanMarker)
        con == at + s.consumed
    IN  IF ~s.found THEN IsPart(FALSE, "Could not find start of scan data", 0, 0)
        ELSE IF Len(rb) < con + 200 THEN IsPart(FALSE, "Could not extract", 0, 0)
        ELSE IF Slice(rb, con + 192, con + 200) # HapsScan
            THEN IsPart(FALSE, "Data header was malformed", 0, 0)
        ELSE IF Len(rb) < con + 256 THEN IsPart(FALSE, "Could not extract", 0, 0)
        ELSE IsPart(TRUE, "", con + 256, U32At(rb, con + 180))

\* mz += 1: a loop that steps by one raw unit
InficonStepOne(mz) == U32Add(mz, 1)

\* mz += 100
InficonStep(mz) == U32Add(mz, 100)

\* the body of for _ in 0..n_mzs on the entry e, up to the while loop: an
\* error, the one value of a SIM entry ("ok"), or the loop to run ("loop",
\* with end_mz + 1 as first element of pushed); an overflowing + 1 panics
\* with overflow checks and wraps without
InficonEntry(e, build) ==
    LET end1 == U32Add(e.end_mz, 1) IN
    IF e.end_mz > MaxEndMz THEN IsResult("error", "End of m/z range is invalid", <<>>)
    ELSE IF e.i_type = U32Zero THEN IsResult("ok", "", <<e.start_mz>>)
    ELSE IF e.start_mz >= e.end_mz \/ RangeTooBig(e.start_mz, e.end_mz)
        THEN IsResult("error", "m/z range is too big or invalid", <<>>)
    ELSE IF end1.overflow /\ build = "debug"
        THEN IsResult("panic", "attempt to add with overflow", <<>>)
    ELSE IsResult("loop", "", <<end1.v>>)

\* a segment count checked against no cap
SegmentCountAny(n_segments) == TRUE

\* n_segments > 10000 is "Inficon file has too many segments"
SegmentCountOk(n_segments) == ~(n_segments > U32(MaxSegments))

\* n_mzs > 100_000 is "Too many m/z ranges"
MzCountOk(n_mzs) == ~(n_mzs > U32(MaxMzRanges))

(***************************************************************************)
(* Inputs of the setup: files written from a head, a segment count,        *)
(* segments and a tail.  Single m/z ranges around 0, 200,000,              *)
(* 4,000,000,000 and u32::MAX; files whose counts are around what they     *)
(* hold and around the caps; heads and tails that are missing, cut short   *)
(* or malformed.                                                           *)
(***************************************************************************)
MaxFileSegments == 2
MaxFileRanges == 2

MzProbes ==
    {U32(0), U32(1), U32(100), U32(150), U32(300), U32(200000), U32(200100),
     MaxEndMz - 100, MaxEndMz - 50, MaxEndMz, MaxEndMz + 1, U32Max - 99, U32Max}

MzEntries == [start_mz : MzProbes, end_mz : MzProbes, i_type : {0, 1, 2}]

\* 1.00 to 3.00 in full scan mode
FixedEntry == [start_mz |-> U32(100), end_mz |-> U32(300), i_type |-> 1]

FileSegments ==
    {[n_mzs |-> n, entries |-> [i \in 1..k |-> FixedEntry]] :
        n \in (0..MaxFileRanges) \cup {MaxMzRanges, MaxMzRanges + 1}, k \in 0..MaxFileRanges}

FileHeads == {"ok", "empty", "magic", "nolist", "short"}

FileTails == {"ok", "none", "short", "cut", "malformed", "big"}

\* the payload length a whole tail declares
TestDataLength == 40

\* a file holds what its counts declare: every segment holds the ranges it
\* counts, unless the count is past the cap or the file ends in the
\* segment; the segments the count declares are there, unless the count
\* is past the cap or the file ends after the segments
FileWritten(f) ==
    /\ \A i \in 1..Len(f.segs) :
          \/ f.segs[i].n_mzs > MaxMzRanges
          \/ Len(f.segs[i].entries) = f.segs[i].n_mzs
          \/ i = Len(f.segs) /\ f.tail = "none" /\ Len(f.segs[i].entries) < f.segs[i].n_mzs
    /\ \/ f.n_segments <= Len(f.segs)
       \/ f.n_segments > MaxSegments
       \/ f.tail = "none"
       \/ \E i \in 1..Len(f.segs) : f.segs[i].n_mzs > MaxMzRanges

SetupInputs ==
    {[head |-> "ok", n_segments |-> 1, segs |-> <<[n_mzs |-> 1, entries |-> <<e>>]>>,
      tail |-> "ok"] : e \in MzEntries}
        \cup {f \in [head : {"ok"},
                     n_segments : (0..MaxFileSegments) \cup {MaxSegments, MaxSegments + 1},
                     segs : SeqsUpTo(FileSegments, MaxFileSegments),
                     tail : FileTails] : FileWritten(f)}
        \cup {[head |-> h, n_segments |-> 0, segs |-> <<>>, tail |-> "ok"] : h \in FileHeads}

\* the bytes of a range, of a segment, of the segments
InficonEntryBytes(e) ==
    Le32U(e.start_mz) \o Le32U(e.end_mz) \o Zeros(16) \o Le32(e.i_type) \o Zeros(4)

RECURSIVE InficonEntriesBytes(_)
InficonEntriesBytes(es) ==
    IF es = <<>> THEN <<>> ELSE InficonEntryBytes(es[1]) \o InficonEntriesBytes(Tail(es))

RECURSIVE InficonSegmentsBytes(_)
InficonSegmentsBytes(segs) ==
    IF segs = <<>> THEN <<>>
    ELSE Zeros(96) \o Le32(segs[1].n_mzs) \o InficonEntriesBytes(segs[1].entries)
             \o InficonSegmentsBytes(Tail(segs))

\* the bytes in front of the segment count
InficonHeadBytes(kind) ==
    CASE kind = "ok" -> MagicInficon \o MzListMarker \o Zeros(104)
      [] kind = "empty" -> <<4, 3>>
      [] kind = "magic" -> <<4, 3, 2, 2>> \o MzListMarker \o Zeros(104)
      [] kind = "nolist" -> MagicInficon \o Zeros(148)
      [] kind = "short" -> MagicInficon \o MzListMarker \o Zeros(50)

\* the bytes from the scan pattern to the scan data
InficonTailBytes(kind) ==
    LET whole == ScanMarker \o Zeros(168) \o Le32(TestDataLength) \o Zeros(8) \o HapsScan
                     \o Zeros(56)
    IN  CASE kind = "ok" -> whole
          [] kind = "none" -> <<>>
          [] kind = "short" -> Take(whole, 250)
          [] kind = "cut" -> Take(whole, 190)
          [] kind = "malformed" -> [whole EXCEPT ![200] = 109]
          [] kind = "big" -> Take(whole, 180) \o Le32U(U32Max) \o Drop(whole, 184)

\* a file: whole, or no more than a head that is not whole
InficonFile(f) ==
    IF f.head # "ok" THEN InficonHeadBytes(f.head)
    ELSE InficonHeadBytes(f.head) \o Le32(f.n_segments) \o InficonSegmentsBytes(f.segs)
             \o InficonTailBytes(f.tail)

IsStart ==
    /\ is_build \in {"debug", "release"}
    /\ is_input \in SetupInputs
    /\ is_src = InficonFile(is_input)
    /\ is_at = 0
    /\ is_pc = "count" /\ is_err = ""
    /\ is_segments = <<>> /\ is_seg = 0 /\ is_left = 0 /\ is_read = 0
    /\ is_mz = U32Zero /\ is_end1 = U32Zero /\ is_data = U32Zero

IsIdle ==
    /\ is_build = "debug"
    /\ is_input = [head |-> "ok", n_segments |-> 0, segs |-> <<>>, tail |-> "none"]
    /\ is_src = <<>> /\ is_at = 0
    /\ is_pc = "done" /\ is_err = ""
    /\ is_segments = <<>> /\ is_seg = 0 /\ is_left = 0 /\ is_read = 0
    /\ is_mz = U32Zero /\ is_end1 = U32Zero /\ is_data = U32Zero

\* the magic, the pattern, n_segments read and checked, then
\* mz_segments = vec![Vec::new(); n_segments]
IsReadCount ==
    /\ is_pc = "count"
    /\ LET r == InficonListStart(is_src) IN
        IF ~r.ok
            THEN is_pc' = "error" /\ is_err' = r.msg /\ UNCHANGED <<is_segments, is_at>>
        ELSE IF SegmentCountOk(r.n)
            THEN /\ is_segments' = [i \in 1..U32Small(r.n) |-> <<>>]
                 /\ is_at' = r.con
                 /\ is_pc' = "segment" /\ UNCHANGED is_err
        ELSE /\ is_pc' = "error" /\ is_err' = "Inficon file has too many segments"
             /\ UNCHANGED <<is_segments, is_at>>
    /\ UNCHANGED <<is_build, is_input, is_src, is_seg, is_left, is_read, is_mz, is_end1,
                   is_data, notIs>>

\* for segment in mz_segments.iter_mut(): the 96 bytes and n_mzs of the next
\* segment (a file that ends before them is an incomplete extract); after
\* the last segment the setup goes on to the scan data
IsReadSegment ==
    /\ is_pc = "segment"
    /\ LET n_mzs == U32At(is_src, is_at + 96) IN
        IF is_seg = Len(is_segments)
            THEN is_pc' = "scan" /\ UNCHANGED <<is_err, is_seg, is_left, is_at>>
        ELSE IF Len(is_src) - is_at < 100
            THEN is_pc' = "error" /\ is_err' = "Could not extract"
                    /\ UNCHANGED <<is_seg, is_left, is_at>>
        ELSE IF ~MzCountOk(n_mzs)
            THEN is_pc' = "error" /\ is_err' = "Too many m/z ranges"
                    /\ is_seg' = is_seg + 1 /\ UNCHANGED <<is_left, is_at>>
        ELSE /\ is_pc' = "entry" /\ is_seg' = is_seg + 1
             /\ is_left' = U32Small(n_mzs) /\ is_at' = is_at + 100 /\ UNCHANGED is_err
    /\ UNCHANGED <<is_build, is_input, is_src, is_segments, is_read, is_mz, is_end1, is_data,
                   notIs>>

\* for _ in 0..n_mzs: the next m/z range of the segment, up to its loop.
\* start_mz and end_mz are read and end_mz checked, then the other 24
\* bytes of the range are read
IsReadEntry ==
    /\ is_pc = "entry"
    /\ LET avail == Len(is_src) - is_at
           e == [start_mz |-> U32At(is_src, is_at), end_mz |-> U32At(is_src, is_at + 4),
                 i_type |-> IF avail < 28 THEN U32Zero ELSE U32At(is_src, is_at + 24)]
           r == InficonEntry(e, is_build)
       IN  IF is_left = 0
            THEN is_pc' = "segment"
                    /\ UNCHANGED <<is_err, is_segments, is_left, is_read, is_mz, is_end1, is_at>>
           ELSE IF avail < 8 \/ (avail < 32 /\ ~(e.end_mz > MaxEndMz))
            THEN is_pc' = "error" /\ is_err' = "Could not extract"
                    /\ UNCHANGED <<is_segments, is_left, is_read, is_mz, is_end1, is_at>>
           ELSE /\ is_read' = is_read + 1
                /\ is_left' = is_left - 1
                /\ is_err' = r.msg
                /\ is_at' = IF r.kind \in {"ok", "loop"} THEN is_at + 32 ELSE is_at
                /\ IF r.kind = "loop"
                    THEN /\ is_pc' = "loop" /\ is_mz' = e.start_mz
                         /\ is_end1' = r.pushed[1] /\ UNCHANGED is_segments
                    ELSE /\ is_pc' = IF r.kind = "ok" THEN "entry" ELSE r.kind
                         /\ is_segments' = [is_segments EXCEPT ![is_seg] = @ \o r.pushed]
                         /\ UNCHANGED <<is_mz, is_end1>>
    /\ UNCHANGED <<is_build, is_input, is_src, is_seg, is_data, notIs>>

\* while mz < end_mz + 1 { segment.push(mz); mz += 100; }: one iteration, or
\* the end of the loop; an overflowing += panics with overflow checks and
\* wraps without
IsLoop ==
    /\ is_pc = "loop"
    /\ LET nxt == InficonStep(is_mz) IN
        IF ~(is_mz < is_end1)
            THEN is_pc' = "entry" /\ UNCHANGED <<is_err, is_segments, is_mz>>
            ELSE /\ is_segments' = [is_segments EXCEPT ![is_seg] = Append(@, is_mz)]
                 /\ IF nxt.overflow /\ is_build = "debug"
                        THEN /\ is_pc' = "panic" /\ is_err' = "attempt to add with overflow"
                             /\ UNCHANGED is_mz
                        ELSE is_mz' = nxt.v /\ UNCHANGED <<is_pc, is_err>>
    /\ UNCHANGED <<is_build, is_input, is_src, is_at, is_seg, is_left, is_read, is_end1,
                   is_data, notIs>>

\* after the segments: the scan pattern is sought, data_length read and the
\* "HapsScan" header checked; *data_left = data_length, *consumed += con,
\* Ok(true)
IsFindScans ==
    /\ is_pc = "scan"
    /\ LET r == InficonScanStart(is_src, is_at) IN
        IF r.ok
            THEN /\ is_pc' = "done" /\ is_data' = r.n /\ is_at' = r.con
                 /\ UNCHANGED is_err
            ELSE /\ is_pc' = "error" /\ is_err' = r.msg
                 /\ UNCHANGED <<is_data, is_at>>
    /\ UNCHANGED <<is_build, is_input, is_src, is_segments, is_seg, is_left, is_read, is_mz,
                   is_end1, notIs>>

IsNext == IsReadCount \/ IsReadSegment \/ IsReadEntry \/ IsLoop \/ IsFindScans

(***************************************************************************)
(* entab-js/src/lib.rs: Reader::new, over a stream as decompress sees it.  *)
(***************************************************************************)
\* the parser argument of Reader::new: Option<String>
NoParser == [some |-> FALSE, name |-> ""]
Parser(name) == [some |-> TRUE, name |-> name]

\* the names given to Reader::new: none, three parsers and an unknown name
ParserOptions == {NoParser, Parser("bam"), Parser("sam"), Parser("fasta"), Parser("nope")}

\* headers() of a reader: the field names of its records, in their order
\* (impl_record! of BamRecord and SamRecord, Record::Sequence of the FASTA
\* reader, StateMetadata::header of FastqState and InficonState)
ReaderHeaders(parser_name) ==
    CASE parser_name \in {"bam", "sam"} ->
             <<"query_name", "flag", "ref_name", "pos", "mapq", "cigar", "rnext", "pnext",
               "tlen", "seq", "qual", "extra">>
      [] parser_name \in {"fasta", "fastq"} -> <<"id", "sequence", "quality">>
      [] parser_name = "inficon" -> <<"time", "mz", "intensity">>
      [] OTHER -> <<>>

\* get_reader(parser_name, buffer), as the outcomes it can have: the name
\* of a format is mapped to the constructor of its decoder, any other name
\* is an error.  The constructor runs the setup of the decoder on the
\* bytes rb of the buffer: BamState::get for "bam", the start of
\* InficonState::parse for "inficon"; the setup of "sam", "fasta" and
\* "fastq" has no error of its own; the setups of the other decoders are
\* left open
get_reader(parser_name, rb) ==
    CASE parser_name = "bam" -> {IF BamStateGet(rb).ok THEN "reader" ELSE "error"}
      [] parser_name \in {"sam", "fasta", "fastq"} -> {"reader"}
      [] parser_name = "inficon" ->
             IF InficonListStart(rb).ok THEN {"reader", "error"} ELSE {"error"}
      [] parser_name \in ParserNames \ {"bam", "sam", "fasta", "fastq", "inficon"} ->
             {"reader", "error"}
      [] OTHER -> {"error"}

NoReader == [kind |-> "none", at |-> "", parser |-> "", headers |-> <<>>]

ReaderError(at) == [kind |-> "error", at |-> at, parser |-> "", headers |-> <<>>]

\* Reader::new(data, parser) of the host binding, as the results it can
\* have: the error of decompress; the error of ReadBuffer::new, whose first
\* read of a decoder fails when read_ok is not set; then the name is the
\* parser given, and without one the parser name of the file type
\* decompress returned; the error of get_reader; else the Reader with the
\* name and the headers of its reader
ReaderNew(data, parser, feature, read_ok) ==
    LET d == decompress(data, feature)
        parser_name == IF parser.some THEN parser.name ELSE to_parser_name(d.ftype)
    IN  IF d.kind = "error" THEN {ReaderError("decompress")}
        ELSE IF d.compression # {} /\ ~read_ok THEN {ReaderError("ReadBuffer::new")}
        ELSE {IF k = "error" THEN ReaderError("get_reader")
                             ELSE [kind |-> "reader", at |-> "", parser |-> parser_name,
                                   headers |-> ReaderHeaders(parser_name)] :
                 k \in get_reader(parser_name, StreamPrefix(d.stream))}

DcStart ==
    /\ dc_stream \in DcStreams
    /\ dc_feature \in BOOLEAN
    /\ dc_out = DcNoResult
    /\ dc_new = NoReader

DcIdle ==
    /\ dc_stream = [layers |-> <<>>, core |-> <<>>]
    /\ dc_feature = TRUE
    /\ dc_out = DcNoResult
    /\ dc_new = NoReader

DcDecompress ==
    /\ dc_out.kind = "none"
    /\ dc_out' = decompress(dc_stream, dc_feature)
    /\ UNCHANGED <<dc_stream, dc_feature, dc_new, notDc>>

\* the host binding builds a reader over the stream
DcReaderNew(parser, read_ok) ==
    /\ dc_new.kind = "none"
    /\ dc_new' \in ReaderNew(dc_stream, parser, dc_feature, read_ok)
    /\ UNCHANGED <<dc_stream, dc_feature, dc_out, notDc>>

DcNext ==
    \/ DcDecompress
    \/ \E parser \in ParserOptions, read_ok \in BOOLEAN : DcReaderNew(parser, read_ok)

\* COMPONENTS-END

(***************************************************************************)
(* Specifications: one per component.                                      *)
(***************************************************************************)
InitFileType == FtStart /\ FqIdle /\ FaIdle /\ SbIdle /\ InIdle /\ DcIdle /\ ShIdle /\ JsIdle /\ IsIdle

SpecFileType == InitFileType /\ [][FtNext]_vars

InitFastq == FqStart /\ FtIdle /\ FaIdle /\ SbIdle /\ InIdle /\ DcIdle /\ ShIdle /\ JsIdle /\ IsIdle

SpecFastq == InitFastq /\ [][FqNext]_vars

InitFasta == FaStart /\ FtIdle /\ FqIdle /\ SbIdle /\ InIdle /\ DcIdle /\ ShIdle /\ JsIdle /\ IsIdle

SpecFasta == InitFasta /\ [][FaNext]_vars

\* bound: the longest generated source of the FASTA reader that runs on
MaxFairSrc == 6

\* the FASTA reader over the shorter sources and the multi-line test input
InitFastaFair ==
    /\ InitFasta
    /\ Len(fa_src) <= MaxFairSrc \/ fa_src = TestFastaMultiline

\* the FASTA reader runs on: a call of next() and a pass of the loop of get
\* that can be made are made
SpecFastaFair == InitFastaFair /\ [][FaNext]_vars /\ WF_vars(FaNext)

InitSamBam == SbStart /\ FtIdle /\ FqIdle /\ FaIdle /\ InIdle /\ DcIdle /\ ShIdle /\ JsIdle /\ IsIdle

SpecSamBam == InitSamBam /\ [][SbNext]_vars

InitInficon == InStart /\ FtIdle /\ FqIdle /\ FaIdle /\ SbIdle /\ DcIdle /\ ShIdle /\ JsIdle /\ IsIdle

SpecInficon == InitInficon /\ [][InNext]_vars

InitDecompress == DcStart /\ FtIdle /\ FqIdle /\ FaIdle /\ SbIdle /\ InIdle /\ ShIdle /\ JsIdle /\ IsIdle

SpecDecompress == InitDecompress /\ [][DcNext]_vars

InitSamSetup == ShStart /\ FtIdle /\ FqIdle /\ FaIdle /\ SbIdle /\ InIdle /\ DcIdle /\ JsIdle /\ IsIdle

SpecSamSetup == InitSamSetup /\ [][ShNext]_vars

InitHostBinding == JsStart /\ FtIdle /\ FqIdle /\ FaIdle /\ SbIdle /\ InIdle /\ DcIdle /\ ShIdle /\ IsIdle

SpecHostBinding == InitHostBinding /\ [][JsNext]_vars

InitInficonSetup == IsStart /\ FtIdle /\ FqIdle /\ FaIdle /\ SbIdle /\ InIdle /\ DcIdle /\ ShIdle /\ JsIdle

SpecInficonSetup == InitInficonSetup /\ [][IsNext]_vars

\* the two readers driven by parse: a FASTQ source or an Inficon source
InitParsers ==
    /\ \/ FqStart /\ InIdle
       \/ InStart /\ FqIdle
    /\ FtIdle /\ FaIdle /\ SbIdle /\ DcIdle /\ ShIdle /\ JsIdle /\ IsIdle

ParsersNext == FqParse \/ FqRefill \/ InParse \/ InRefill

SpecParsers == InitParsers /\ [][ParsersNext]_vars

(***************************************************************************)
(* Claims about the file type component (checked under SpecFileType).      *)
(***************************************************************************)
\* the 15 file types of test_parser_names
SupportedFileTypes ==
    {FT("AgilentChemstationFid"), FT("AgilentChemstationMs"),
     FT("AgilentChemstationMwd"), FT("AgilentChemstationUv"), FT("Bam"),
     FT("Facs"), FT("Fasta"), FT("Fastq"), FT("InficonHapsite"), FT("Png"),
     FT("Sam"), FT("ThermoCf"), FT("ThermoDxf"), DelimitedText(44),
     DelimitedText(9)}

\* C8: parser names and file types round-trip without loss: for each of the
\* 15 supported names n, to_parser_name(from_parser_name(n)) = n, and for
\* each of the 15 supported file types ft (DelimitedText(',') and
\* DelimitedText('\t') among them), from_parser_name(to_parser_name(ft)) = ft.
C8_ParserNamesRoundTrip ==
    /\ (ft_stage = "n2t2n" /\ ft_name_in \in ParserNames) => ft_name_out = ft_name_in
    /\ (ft_stage = "t2n2t" /\ ft_type_in \in SupportedFileTypes) => ft_type = ft_type_in

\* C8 witness: the tab-delimited type has gone to its name and come back
C8_Witness ==
    /\ ft_stage = "t2n2t"
    /\ ft_type_in = DelimitedText(9)
    /\ ft_name_out = "tsv"
    /\ ft_type = DelimitedText(9)

\* the registered 8-byte magics and the file type each stands for
RegisteredMagic8 ==
    {<<MagicFcs20, "Facs">>, <<MagicFcs30, "Facs">>, <<MagicFcs31, "Facs">>,
     <<MagicLasUpper, "Las">>, <<MagicLasLower, "Las">>, <<MagicPng, "Png">>,
     <<MagicHdf5, "Hdf5">>, <<MagicInficon, "InficonHapsite">>,
     <<MagicZtr, "Ztr">>, <<MagicThermoRaw, "ThermoRaw">>}

\* C9: for each registered 8-byte magic m and every buffer of length >= 8
\* whose first 8 bytes are m, from_magic returns m's file type, whatever the
\* trailing bytes, the buffer of length exactly 8 included.
C9_Magic8AnyLength ==
    (ft_stage = "sniffed" /\ Len(ft_magic) >= 8) =>
        \A r \in RegisteredMagic8 : Take(ft_magic, 8) = r[1] => ft_type = FT(r[2])

\* C10: longer magics take priority over shorter ones: every buffer whose
\* first 4 bytes are "@HD\t" or "@SQ\t" classifies as Sam (never as Fastq
\* from its leading '@'), and every buffer whose first 4 bytes are "BAM\x01"
\* classifies as Bam.
C10_Magic4Priority ==
    (ft_stage = "sniffed" /\ Len(ft_magic) >= 4) =>
        /\ Take(ft_magic, 4) \in {MagicSamHd, MagicSamSq} => ft_type = FT("Sam")
        /\ Take(ft_magic, 4) = MagicBam => ft_type = FT("Bam")

(***************************************************************************)
(* Claims about the FASTQ reader (checked under SpecFastq).                *)
(***************************************************************************)
\* the bytes of a sequence line: ASCII letters
BaseBytes == (65..90) \cup (97..122)

\* the bytes of a quality line: the printable characters '!'..'~'
PhredBytes == 33..126

\* the four-line format, read off an input with LF endings: ok says the
\* input is a run of records "@id\nsequence\n+text\nquality", each but the
\* last ended by "\n" and the last by "\n" or the end of input, the
\* sequence made of letters, the quality of as many printable characters,
\* and no line holding a '\r'; recs are the (id, sequence, quality) lines
RECURSIVE FastqFourLine(_)
FastqFourLine(s) ==
    IF s = <<>> THEN [ok |-> TRUE, recs |-> <<>>]
    ELSE
        LET p1 == Memchr(LF, s)
            r1 == Drop(s, p1 + 1)
            p2 == Memchr(LF, r1)
            r2 == Drop(r1, p2 + 1)
            p3 == Memchr(LF, r2)
            r3 == Drop(r2, p3 + 1)
            bad == [ok |-> FALSE, recs |-> <<>>]
        IN  IF /\ s[1] = AT
               /\ p1 >= 1
               /\ \A i \in 1..p1 : s[i] # CR
               /\ Utf8Ok(SubSeq(s, 2, p1))
               /\ p2 >= 0
               /\ \A i \in 1..p2 : r1[i] \in BaseBytes
               /\ p3 >= 1
               /\ r2[1] = PLUS
               /\ \A i \in 1..p3 : r2[i] # CR
               /\ Len(r3) >= p2
               /\ \A i \in 1..p2 : r3[i] \in PhredBytes
               /\ (Len(r3) > p2 => r3[p2 + 1] = LF)
            THEN
                LET rest == FastqFourLine(Drop(r3, p2 + 1))
                    rec == [id |-> SubSeq(s, 2, p1), sequence |-> Take(r1, p2),
                            quality |-> Take(r3, p2)]
                IN  [ok |-> rest.ok, recs |-> <<rec>> \o rest.recs]
            ELSE bad

\* the records of test_fastq_reading: (id, ACGT, !!!!) and (id2, TGCA, !!!!)
TestFastqRecords ==
    <<[id |-> <<105, 100>>, sequence |-> <<65, 67, 71, 84>>,
       quality |-> <<33, 33, 33, 33>>],
      [id |-> <<105, 100, 50>>, sequence |-> <<84, 71, 67, 65>>,
       quality |-> <<33, 33, 33, 33>>]>>

\* C1: for every FASTQ input that is valid with LF line endings, the input
\* with every LF replaced by CRLF decodes to the identical sequence of (id,
\* sequence, quality) records followed by done: in both encodings the reader
\* ends with done, having returned the records of the input's lines, and the
\* input of test_fastq_reading gives (id, ACGT, !!!!), (id2, TGCA, !!!!).
C1_CrlfSameRecords ==
    (fq_pc \in {"done", "error"} /\ FastqFourLine(fq_lf).ok) =>
        /\ fq_pc = "done"
        /\ fq_recs = FastqFourLine(fq_lf).recs
        /\ fq_lf = TestFastq => fq_recs = TestFastqRecords

\* C1 witness: the CRLF encoding of the two test records has been read to done
C1_Witness ==
    /\ fq_pc = "done"
    /\ fq_lf = TestFastq
    /\ fq_src = ToCRLF(TestFastq)
    /\ fq_src # fq_lf
    /\ fq_recs = TestFastqRecords

\* C2: for every record parse accepts, the quality slice is exactly as long
\* as the sequence slice (quality end = quality start + sequence length) and
\* both slices lie inside the window.
C2_QualityLenIsSeqLen ==
    fq_res.r.kind = "ok" =>
        LET st == fq_res.r.state
            n == Len(fq_res.window)
            rec == [sequence |-> Slice(fq_res.window, st.seq[1], st.seq[2]),
                    quality |-> Slice(fq_res.window, st.qual[1], st.qual[2])]
        IN  /\ st.qual[2] = st.qual[1] + (st.seq[2] - st.seq[1])
            /\ 0 <= st.seq[1] /\ st.seq[1] <= st.seq[2] /\ st.seq[2] <= n
            /\ 0 <= st.qual[1] /\ st.qual[1] <= st.qual[2] /\ st.qual[2] <= n
            /\ Len(rec.quality) = Len(rec.sequence)
            /\ Len(rec.sequence) = st.seq[2] - st.seq[1]

\* C2 witness: parse has accepted a record with a sequence of one base from
\* an input that is not in the four-line format
C2_Witness ==
    /\ fq_res.r.kind = "ok"
    /\ ~FastqFourLine(fq_lf).ok
    /\ fq_res.r.state.seq[2] - fq_res.r.state.seq[1] = 1
    /\ Len(fq_recs) = 1

(***************************************************************************)
(* Claims about the FASTA reader (checked under SpecFasta).                *)
(***************************************************************************)
\* a line without the '\r' of its "\r\n" terminator
StripCR(t) == IF Len(t) > 0 /\ t[Len(t)] = CR THEN Take(t, Len(t) - 1) ELSE t

\* the lines of an input: the text of each without its LF or CRLF
\* terminator, and whether it had one (only the last line may have none)
RECURSIVE FastaLines(_)
FastaLines(s) ==
    IF s = <<>> THEN <<>>
    ELSE LET p == Memchr(LF, s) IN
         IF p = -1 THEN <<[text |-> s, lf |-> FALSE]>>
         ELSE <<[text |-> StripCR(Take(s, p)), lf |-> TRUE]>> \o FastaLines(Drop(s, p + 1))

\* a line that starts with '>'
FastaIsHeader(line) == Len(line.text) > 0 /\ line.text[1] = GT

\* a FASTA input in which each header line is newline-terminated (and is
\* text: UTF-8)
FastaHeadersTerminated(s) ==
    LET lines == FastaLines(s) IN
    /\ Len(lines) > 0
    /\ FastaIsHeader(lines[1])
    /\ \A i \in 1..Len(lines) :
          FastaIsHeader(lines[i]) => lines[i].lf /\ Utf8Ok(lines[i].text)

\* the concatenation of the texts of lines
RECURSIVE FastaConcat(_)
FastaConcat(lines) ==
    IF lines = <<>> THEN <<>> ELSE Head(lines).text \o FastaConcat(Tail(lines))

\* the records of a run of lines that starts with a header line: the id is
\* the header without its '>', the sequence the lines up to the next header
RECURSIVE FastaRecordsOf(_)
FastaRecordsOf(lines) ==
    IF lines = <<>> THEN <<>>
    ELSE
        LET later == {i \in 2..Len(lines) : FastaIsHeader(lines[i])}
            next == IF later = {} THEN Len(lines) + 1
                    ELSE CHOOSE i \in later : \A j \in later : i <= j
        IN  <<[id |-> Tail(Head(lines).text),
               sequence |-> FastaConcat(SubSeq(lines, 2, next - 1))]>>
                \o FastaRecordsOf(SubSeq(lines, next, Len(lines)))

\* (id, ACGTAAAA), (id2, TGCA) of test_fasta_multiline
TestFastaMultilineRecords ==
    <<[id |-> <<105, 100>>, sequence |-> <<65, 67, 71, 84, 65, 65, 65, 65>>],
      [id |-> <<105, 100, 50>>, sequence |-> <<84, 71, 67, 65>>]>>

\* (hd, ""), ("", "") of test_fasta_empty_fields
TestFastaEmptyRecords ==
    <<[id |-> <<104, 100>>, sequence |-> <<>>], [id |-> <<>>, sequence |-> <<>>]>>

\* C3: for every FASTA input in which each header line is newline-
\* terminated, the reader ends with done and each decoded record's id is the
\* header line without the leading '>' and its LF/CRLF terminator, and its
\* sequence is the concatenation of the following lines up to the next line
\* starting with '>' (or EOF) with every LF/CRLF terminator removed; empty
\* headers and empty sequences decode to empty values (">id\nACGT\nAAAA\n
\* >id2\nTGCA" gives (id, ACGTAAAA), (id2, TGCA) and ">hd\n\n>\n\n" gives
\* (hd, ""), ("", "")).
C3_FastaRecords ==
    (fa_pc \in {"done", "error"} /\ FastaHeadersTerminated(fa_src)) =>
        /\ fa_pc = "done"
        /\ fa_recs = FastaRecordsOf(FastaLines(fa_src))
        /\ fa_src = TestFastaMultiline => fa_recs = TestFastaMultilineRecords
        /\ fa_src = TestFastaEmpty => fa_recs = TestFastaEmptyRecords

(***************************************************************************)
(* Claims about the SAM and BAM readers.                                   *)
(***************************************************************************)
\* a decimal text: one ASCII digit or more
IsDecimal(text) == text # <<>> /\ \A i \in 1..Len(text) : text[i] \in 48..57

\* what the position text is specified to decode to
PositionOf(text) ==
    LET n == StripZeros([i \in 1..Len(text) |-> text[i] - ZERO]) IN
    IF text = <<ZERO>> THEN None
    ELSE IF DigitsLeq(n, IntMax("i32")) THEN Some(DigitsValue(text) - 1)
    ELSE IF n = I32MinMagnitude THEN Some(2147483647)
    ELSE SomeBig(DigitsPred(n))

\* the lines the SAM reader has decoded or failed on
SamLinesTried ==
    {i \in 1..Len(sam_lines) :
        i <= Len(sam_recs) \/ (i = Len(sam_recs) + 1 /\ sam_pc \in {"error", "panic"})}

\* C4: in strs_to_sam the position field and the next-position field decode
\* as: the text "0" gives absent, any other decimal text with value n gives
\* n - 1 (so "1" gives 0).
C4_PositionsZeroBased ==
    \A i \in SamLinesTried :
        LET chunks == SplitTab(sam_lines[i]) IN
        (Len(chunks) >= 11 /\ IsDecimal(chunks[4]) /\ IsDecimal(chunks[8])
            /\ ParseInt(chunks[2], "u16").ok /\ ParseInt(chunks[5], "u8").ok
            /\ ParseInt(chunks[9], "i32").ok) =>
                /\ i <= Len(sam_recs)
                /\ sam_recs[i].pos = PositionOf(chunks[4])
                /\ sam_recs[i].pnext = PositionOf(chunks[8])

\* C5: for alignments written once as BAM records and once as the
\* equivalent SAM lines, BamReader and SamReader both end with done after
\* the same number of records, and the records at the same place have equal
\* query_name and equal seq.
C5_BamSamAgree ==
    (sb_als # <<>> /\ bam_pc \notin {"setup", "ready"} /\ sam_pc # "ready") =>
        /\ bam_pc = "done" /\ sam_pc = "done"
        /\ Len(bam_recs) = Len(sam_recs)
        /\ \A i \in 1..Len(bam_recs) :
              /\ bam_recs[i].query_name = sam_recs[i].query_name
              /\ bam_recs[i].seq = sam_recs[i].seq

\* C6: for every declared record length >= 32 and every content of the
\* data, extract_bam_record returns a complete record or an error: no index
\* into the data slice (query name, cigar ops, packed bases, the quality
\* sentinel, the seq_len quality bytes) is outside the slice.
C6_BamNoOutOfBounds ==
    (\A i \in 1..Len(bam_stream) : bam_stream[i].record_len >= 32) => bam_pc # "panic"

(***************************************************************************)
(* Claims about the Inficon reader.                                        *)
(***************************************************************************)
\* C7: for every segment table and every window, InficonRecord::parse
\* returns a record, an incomplete result, the end of the stream or an
\* error, and never indexes outside the selected segment's m/z list; a scan
\* header with m/z count 0 that selects a segment with an empty m/z list is
\* an error.
C7_InficonNoOutOfBounds ==
    /\ in_pc # "panic"
    /\ in_res.r.kind \in {"none", "record", "end", "error"}
    /\ (/\ in_res.r.kind # "none"
        /\ in_res.before.data_left > 0 /\ in_res.before.mzs_left = 0
        /\ Len(in_res.window) >= 20
        /\ U16At(in_res.window, 10) = 0
        /\ U16At(in_res.window, 14) \div 16 < Len(in_res.before.mz_segments)
        /\ in_res.before.mz_segments[(U16At(in_res.window, 14) \div 16) + 1] = <<>>)
            => in_res.r.kind = "error"

(***************************************************************************)
(* Claims about decompress.                                                *)
(***************************************************************************)
\* the stream with its outermost container taken off
Unwrapped(s) == [s EXCEPT !.layers = Tail(@)]

\* C11: decompress unwraps exactly one layer: when the raw prefix classifies
\* as Gzip, Bzip, Lzma or Zstd it returns the once-decompressed stream, the
\* classification of the decompressed prefix as the inner type and Some(the
\* container type), and does not unwrap again when the inner type is itself
\* a container; for any other raw classification it returns the stream
\* unchanged with that type and None.  A gzip-wrapped BAM yields inner type
\* Bam and compression Some(Gzip).
C11_DecompressOneLayer ==
    (dc_out.kind # "none" /\ dc_feature) =>
        LET raw == from_magic(StreamPrefix(dc_stream)) IN
        /\ (raw.tag \in Containers /\ dc_stream.layers # <<>>) =>
              /\ dc_out.kind = "ok"
              /\ dc_out.stream = Unwrapped(dc_stream)
              /\ dc_out.ftype = from_magic(StreamPrefix(Unwrapped(dc_stream)))
              /\ dc_out.compression = {raw}
        /\ raw.tag \notin Containers =>
              /\ dc_out.kind = "ok"
              /\ dc_out.stream = dc_stream
              /\ dc_out.ftype = raw
              /\ dc_out.compression = {}
        /\ dc_stream = [layers |-> <<"Gzip">>, core |-> TestBamCore] =>
              dc_out.ftype = FT("Bam") /\ dc_out.compression = {FT("Gzip")}

\* a container inside a container has been unwrapped once
C11_Witness ==
    /\ dc_feature /\ dc_out.kind = "ok"
    /\ Len(dc_stream.layers) = 2
    /\ dc_out.stream.layers = Tail(dc_stream.layers)
    /\ dc_out.ftype.tag \in Containers

(***************************************************************************)
(* More claims about the FASTQ reader (checked under SpecFastq).           *)
(***************************************************************************)
\* every "\r\n" of a text written as "\n"
RECURSIVE FromCRLF(_)
FromCRLF(s) ==
    IF s = <<>> THEN <<>>
    ELSE IF Len(s) >= 2 /\ s[1] = CR /\ s[2] = LF THEN <<LF>> \o FromCRLF(Drop(s, 2))
    ELSE <<Head(s)>> \o FromCRLF(Tail(s))

\* where a text with LF endings that starts a four-line record runs out:
\* "header" before the newline of the '@' line, "sequence" before the '+'
\* line, "second header" before the newline of the '+' line, "quality"
\* before as many quality bytes as bases; "whole" when the record is all
\* there, "none" when the text does not start a four-line record
FastqCutSection(s) ==
    LET p1 == Memchr(LF, s)
        r1 == Drop(s, p1 + 1)
        p2 == Memchr(LF, r1)
        r2 == Drop(r1, p2 + 1)
        p3 == Memchr(LF, r2)
        r3 == Drop(r2, p3 + 1)
    IN  IF s = <<>> \/ s[1] # AT \/ \E i \in 1..Len(s) : s[i] = CR THEN "none"
        ELSE IF p1 = -1 THEN IF \E i \in 1..Len(s) : s[i] = PLUS THEN "none" ELSE "header"
        ELSE IF p2 = -1
            THEN IF \A i \in 1..Len(r1) : r1[i] \in BaseBytes THEN "sequence" ELSE "none"
        ELSE IF \E i \in 1..p2 : r1[i] \notin BaseBytes THEN "none"
        ELSE IF r2 = <<>> THEN "sequence"
        ELSE IF r2[1] # PLUS THEN "none"
        ELSE IF p3 = -1 THEN "second header"
        ELSE IF \E i \in 1..Len(r3) : i <= p2 /\ r3[i] \notin PhredBytes THEN "none"
        ELSE IF Len(r3) < p2 THEN "quality"
        ELSE "whole"

\* the sections a record can run out in
FastqSections == {"header", "sequence", "second header", "quality"}

\* the length of the first record of a text whose first record is whole,
\* without the newline after its quality
FastqWholeLen(s) ==
    LET p1 == Memchr(LF, s)
        r1 == Drop(s, p1 + 1)
        p2 == Memchr(LF, r1)
        p3 == Memchr(LF, Drop(r1, p2 + 1))
    IN  (p1 + 1) + (p2 + 1) + (p3 + 1) + p2

\* the section the last record of an input runs out in, the records before
\* it being whole and newline-terminated ("none" when there is no such record)
RECURSIVE FastqInputCutSection(_)
FastqInputCutSection(s) ==
    LET sec == FastqCutSection(s)
        len == FastqWholeLen(s)
    IN  IF sec # "whole" THEN sec
        ELSE IF Len(s) > len + 1 /\ s[len + 1] = LF THEN FastqInputCutSection(Drop(s, len + 1))
        ELSE "none"

\* C12: when a FASTQ window ends before the header newline, before the '+'
\* line, before the newline of the '+' line or before the full quality,
\* FastqRecord::parse reports the error that names that section ("Record
\* ended prematurely in header" / "in sequence" / "in second header" / "in
\* quality"), and at the true end of such an input next() has returned an
\* error rather than a record or done.
C12_SectionErrors ==
    /\ (fq_res.r.kind # "none" /\ FastqCutSection(FromCRLF(fq_res.window)) \in FastqSections) =>
          /\ fq_res.r.kind = "error"
          /\ fq_res.r.msg = "Record ended prematurely in "
                                \o FastqCutSection(FromCRLF(fq_res.window))
    /\ (fq_pc \in {"done", "error"} /\ FastqInputCutSection(fq_lf) \in FastqSections) =>
          /\ fq_pc = "error"
          /\ fq_eof
          /\ fq_res.r.msg = "Record ended prematurely in " \o FastqInputCutSection(fq_lf)

\* the reader has returned a record and then failed at the end of an input
\* written with CRLF that ends inside the quality of its second record
C12_Witness ==
    /\ fq_pc = "error" /\ fq_eof
    /\ Len(fq_recs) = 1
    /\ fq_src # fq_lf
    /\ FastqInputCutSection(fq_lf) = "quality"
    /\ fq_res.r.msg = "Record ended prematurely in quality"

\* C13: FastqRecord::parse called with eof = true never returns a result
\* flagged incomplete: the not-enough-bytes condition that is incomplete
\* when eof = false is a genuine, non-incomplete error when eof = true.
C13_NoIncompleteAtEof ==
    (fq_res.r.kind = "error" /\ fq_res.eof) => ~fq_res.r.incomplete

\* C14: for a valid FASTQ input whose final record has no line terminator
\* after its quality line, parse at EOF still returns that record with the
\* full quality and consumes exactly the rest of the window, and the
\* following next() returns done.
C14_NoTrailingNewline ==
    LET want == FastqFourLine(fq_lf)
        n == Len(want.recs)
    IN  (want.ok /\ fq_lf # <<>> /\ fq_lf[Len(fq_lf)] # LF) =>
            /\ (fq_res.r.kind = "ok" /\ Len(fq_recs) = n) =>
                  /\ fq_res.eof
                  /\ fq_res.r.consumed = Len(fq_res.window)
                  /\ fq_pos = Len(fq_src)
                  /\ fq_recs[n] = want.recs[n]
                  /\ Len(fq_recs[n].quality) = Len(want.recs[n].sequence)
            /\ fq_pc \in {"done", "error"} => fq_pc = "done" /\ Len(fq_recs) = n

\* the two records of test_fastq_reading, the second without a newline after
\* its quality, have been returned from the CRLF text and next() is done
C14_Witness ==
    /\ fq_lf = TestFastq /\ fq_src = ToCRLF(TestFastq)
    /\ fq_pc = "done"
    /\ fq_pos = Len(fq_src)
    /\ Len(fq_recs) = 2
    /\ fq_recs[2].quality = <<33, 33, 33, 33>>

(***************************************************************************)
(* More claims about the SAM and BAM readers (checked under SpecSamBam).   *)
(***************************************************************************)
\* the number of fields of a line: one more than its tabs
FieldCount(line) == Cardinality({i \in 1..Len(line) : line[i] = TAB}) + 1

\* C15: a SAM data line that splits on tab into fewer than 11 fields makes
\* the reader return the error "Sam record too short" and no record; a line
\* with 11 or more fields is never rejected for its field count.
C15_SamFieldCount ==
    \A i \in SamLinesTried :
        IF FieldCount(sam_lines[i]) < 11
            THEN /\ i = Len(sam_recs) + 1
                 /\ sam_pc = "error"
                 /\ sam_err = "Sam record too short"
            ELSE i = Len(sam_recs) + 1 => sam_err # "Sam record too short"

\* a line of 10 fields has been read and rejected
C15_Witness ==
    /\ sam_lines # <<>> /\ FieldCount(sam_lines[1]) = 10
    /\ sam_pc = "error" /\ sam_recs = <<>> /\ sam_err = "Sam record too short"

(***************************************************************************)
(* The setup of the SAM reader (checked under SpecSamSetup).               *)
(***************************************************************************)
\* the offsets at which a line of the source starts
SamLineStarts(src) == {0} \cup {i \in 1..Len(src) : src[i] = LF}

\* where the header ends: the first line start that is the end of the
\* source or not an '@', and the end of the source when there is none
SamHeaderEnd(src) ==
    LET stops == {k \in SamLineStarts(src) : k = Len(src) \/ At(src, k) # AT}
    IN  IF stops = {} THEN Len(src)
        ELSE CHOOSE k \in stops : \A j \in stops : k <= j

\* C16: the setup of the SAM reader consumes every leading line that begins
\* with '@' together with its newline and stops at the first line that does
\* not begin with '@' or at the end of the input; each iteration of its loop
\* consumes at least one byte; on an input of header lines only the first
\* next() returns done with no error.
C16_SamHeaderSkipped ==
    sh_fail < 0 =>
        /\ \A i \in 1..Len(sh_hdr) :
            /\ sh_hdr[i] > (IF i = 1 THEN 0 ELSE sh_hdr[i - 1])
            /\ sh_hdr[i] \in SamLineStarts(sh_src) \cup {Len(sh_src)}
            /\ sh_hdr[i] <= SamHeaderEnd(sh_src)
        /\ sh_pc \in {"reserve", "setup"} =>
            sh_pos = (IF sh_hdr = <<>> THEN 0 ELSE sh_hdr[Len(sh_hdr)])
        /\ sh_pc \notin {"reserve", "setup"} =>
            /\ (IF sh_hdr = <<>> THEN 0 ELSE sh_hdr[Len(sh_hdr)]) = SamHeaderEnd(sh_src)
            /\ sh_pos >= SamHeaderEnd(sh_src)
        /\ SamHeaderEnd(sh_src) = Len(sh_src) =>
            /\ sh_pc \in {"reserve", "setup", "ready", "done"}
            /\ sh_recs = <<>> /\ sh_err = ""

(***************************************************************************)
(* Reference ids and error positions of the BAM reader (SpecSamBam).       *)
(***************************************************************************)
\* the name the reference table gives an id: empty for -1, the table's
\* entry for an index of the table, and nothing for any other value
BamRefMeaning(id, references) ==
    IF id = -1 THEN {<<>>}
    ELSE IF id >= 0 /\ id < Len(references) THEN {references[id + 1][1]}
    ELSE {}

\* C17: in a BAM record a reference id (and a next-reference id) of -1
\* decodes to the empty name and an index of the reference table to its
\* name; a record with any other id is an error, so no record is returned
\* for it.
C17_BamReferenceIds ==
    \A i \in 1..Len(bam_recs) :
        /\ bam_recs[i].ref_name \in BamRefMeaning(bam_stream[i].ref_id, bam_refs)
        /\ bam_recs[i].rnext \in BamRefMeaning(bam_stream[i].rnext_id, bam_refs)

\* the bytes the first n records of a BAM stream take: a 4-byte length
\* prefix and the declared length each
RECURSIVE BamOffset(_, _)
BamOffset(stream, n) ==
    IF n = 0 THEN 0 ELSE BamOffset(stream, n - 1) + 4 + stream[n].record_len

\* get returned an error: the head of the source was read by the setup and
\* the reader stopped at the record after the returned ones
BamRecordFailed ==
    /\ bam_pc = "error"
    /\ BamStateGet(bam_src).ok

InficonHeaderRead ==
    /\ in_res.r.kind # "none"
    /\ in_res.before.data_left # 0 /\ in_res.before.mzs_left = 0
    /\ Len(in_res.window) >= 16

\* the segment selector and the m/z count of the header at the window's start
InficonSelector == U16At(in_res.window, 14) \div 16

InficonCount == U16At(in_res.window, 10)

\* the header selects no segment, or a segment with another m/z count
InficonHeaderMismatch ==
    LET segs == in_res.before.mz_segments IN
    \/ InficonSelector >= Len(segs)
    \/ InficonCount # Len(segs[InficonSelector + 1])

\* C19: a scan header whose segment selector is >= the number of segments,
\* or whose m/z count differs from the selected segment's list length, gives
\* an error that is not incomplete; no record is produced and mzs_left,
\* data_left and consumed are unchanged.
C19_InficonHeaderErrors ==
    (InficonHeaderRead /\ InficonHeaderMismatch) =>
        /\ in_res.r.kind = "error" /\ ~in_res.r.incomplete
        /\ in_pc = "error"
        /\ in_res.r.consumed = 0
        /\ in_res.r.state.mzs_left = in_res.before.mzs_left
        /\ in_res.r.state.data_left = in_res.before.data_left

\* a header with m/z count 1 for a segment of two m/z values was rejected
C19_Witness ==
    /\ InficonHeaderRead
    /\ InficonSelector = 0 /\ InficonCount = 1
    /\ in_res.before.mz_segments = <<<<100, 200>>>>
    /\ in_res.r.msg = "Number of intensities doesn't match number of mzs"
    /\ in_pc = "error"

\* C20: parse returns the end of the stream exactly when data_left is 0,
\* whatever the window holds and with the state and consumed unchanged;
\* data_left never grows, a returned record takes the bytes it consumed off
\* it, stopping at 0, and nothing else changes it; once data_left is 0 the
\* reader returns done and never another record or an error.
C20_InficonEndOfStream ==
    /\ in_res.r.kind # "none" =>
        /\ in_res.r.kind = "end" <=> in_res.before.data_left = 0
        /\ in_res.r.kind = "end" =>
              in_res.r.state = in_res.before /\ in_res.r.consumed = 0
        /\ in_res.r.state.data_left <= in_res.before.data_left
        /\ in_res.r.state.data_left >= 0
        /\ in_res.r.kind = "record" =>
              in_res.r.state.data_left =
                  (IF in_res.before.data_left >= in_res.r.consumed
                       THEN in_res.before.data_left - in_res.r.consumed ELSE 0)
        /\ in_res.r.kind # "record" =>
              in_res.r.state.data_left = in_res.before.data_left
    /\ in_state.data_left = 0 => in_pc \in {"parse", "done"}
    /\ in_pc = "done" => in_state.data_left = 0 /\ in_res.r.kind = "end"

\* after one record of a scan of two the declared payload was used up, and
\* the next call ended the stream with the rest of the scan in the window
C20_Witness ==
    /\ in_pc = "done" /\ Len(in_recs) = 1
    /\ in_res.r.kind = "end" /\ in_res.window # <<>>
    /\ in_res.before.data_left = 0 /\ in_state.mzs_left = 1
    /\ in_pos = 20

(***************************************************************************)
(* The host binding (checked under SpecHostBinding).                       *)
(***************************************************************************)
\* C21: next() returns the mapping of field names to values with done =
\* false while the underlying reader yields a record, and done = true with
\* no value once the underlying reader is exhausted.
C21_JsDoneWhenExhausted ==
    js_out.kind = "ok" =>
        /\ js_out.value # {} => ~js_out.done
        /\ js_out.value # {} =>
              js_out.value = {[h \in {"id", "sequence", "quality"} |->
                                  CASE h = "id" -> js_source[js_given][1]
                                    [] h = "sequence" -> js_source[js_given][2]
                                    [] h = "quality" -> js_source[js_given][3]]}
        /\ js_out.value = {} => js_out.done

(***************************************************************************)
(* Claims about the setup of the Inficon reader (SpecInficonSetup).        *)
(***************************************************************************)
\* start < end and end - start < 200,000
MzRangeValid(e) ==
    /\ e.start_mz < e.end_mz
    /\ (e.end_mz < U32(200000) \/ e.start_mz > e.end_mz - 200000)

\* what the claim has an accepted entry append: start alone for type 0, else
\* start, start + 100, ... up to the largest value <= end
MzExpected(e) ==
    IF e.i_type = 0 THEN <<e.start_mz>>
    ELSE [i \in 1..((e.end_mz - e.start_mz) \div 100 + 1) |-> e.start_mz + 100 * (i - 1)]

\* what the first k entries of a segment append
RECURSIVE MzExpectedAll(_, _)
MzExpectedAll(entries, k) ==
    IF k = 0 THEN <<>> ELSE MzExpectedAll(entries, k - 1) \o MzExpected(entries[k])

\* the entries of the segment being read, and how many of them were read
IsEntries == is_input.segs[is_seg].entries

IsEntriesRead == is_input.segs[is_seg].n_mzs - is_left

\* C22 (amended): for every entry with end <= 4,000,000,000, an entry of
\* type 0 appends the raw value start; an entry of another type with
\* start < end and end - start < 200,000 appends start, start + 100, ... up
\* to the largest value <= end, in increasing order, and its loop ends
\* without overflow; an entry of another type with start >= end or
\* end - start >= 200,000 is an error.
C22_MzRangeExpansion ==
    /\ is_pc # "panic"
    /\ (is_seg >= 1 /\ is_pc \in {"entry", "segment", "scan", "done"}) =>
          is_segments[is_seg] = MzExpectedAll(IsEntries, IsEntriesRead)
    /\ is_pc = "loop" =>
          LET e == IsEntries[IsEntriesRead]
              before == MzExpectedAll(IsEntries, IsEntriesRead - 1)
              part == Drop(is_segments[is_seg], Len(before))
          IN  /\ e.i_type # 0 /\ MzRangeValid(e) /\ e.end_mz <= MaxEndMz
              /\ Take(is_segments[is_seg], Len(before)) = before
              /\ Len(part) <= Len(MzExpected(e))
              /\ part = Take(MzExpected(e), Len(part))
              /\ is_mz = e.start_mz + 100 * Len(part)
    /\ (is_seg >= 1 /\ IsEntriesRead >= 1 /\ IsEntriesRead <= Len(IsEntries)) =>
          LET e == IsEntries[IsEntriesRead] IN
          /\ (e.end_mz <= MaxEndMz /\ e.i_type # 0 /\ ~MzRangeValid(e)) =>
                is_pc = "error" /\ is_err = "m/z range is too big or invalid"
          /\ (e.end_mz <= MaxEndMz /\ (e.i_type = 0 \/ MzRangeValid(e))) =>
                is_err \notin {"m/z range is too big or invalid",
                               "End of m/z range is invalid"}

\* the range 0.01 to 2000.00 was expanded to its 2000 values
C22_Witness ==
    /\ is_pc = "done"
    /\ is_input.segs = <<[n_mzs |-> 1, entries |-> <<[start_mz |-> U32(1),
                            end_mz |-> U32(200000), i_type |-> 1]>>]>>
    /\ Len(is_segments[1]) = 2000
    /\ is_segments[1][2000] = U32(199901)

\* C22 as stated, for type 0: an entry of type 0 appends start whatever its
\* end is, so reading it never gives an error about the range.
C22_TypeZeroAnyEnd ==
    (is_seg >= 1 /\ IsEntriesRead >= 1 /\ IsEntriesRead <= Len(IsEntries)) =>
        (IsEntries[IsEntriesRead].i_type = 0 =>
            is_err \notin {"m/z range is too big or invalid", "End of m/z range is invalid"})

\* C24: setup returns an error for a segment count above 10,000 and for an
\* m/z-range count of a segment above 100,000, before it allocates the
\* segments or reads a range of that segment; counts equal to the caps are
\* accepted.
C24_SetupCaps ==
    /\ is_pc # "count" =>
          IF is_input.n_segments > 10000
              THEN /\ is_pc = "error" /\ is_err = "Inficon file has too many segments"
                   /\ is_segments = <<>> /\ is_seg = 0 /\ is_read = 0
              ELSE /\ Len(is_segments) = is_input.n_segments
                   /\ is_err # "Inficon file has too many segments"
    /\ is_seg >= 1 =>
          IF is_input.segs[is_seg].n_mzs > 100000
              THEN /\ is_pc = "error" /\ is_err = "Too many m/z ranges"
                   /\ is_segments[is_seg] = <<>> /\ is_left = 0
              ELSE is_err # "Too many m/z ranges"

\* a count of 10,000 segments was accepted and the segments allocated, the
\* first segment's two ranges were read, and the second segment's count of
\* 100,001 ranges was rejected
C24_Witness ==
    /\ is_input.n_segments = 10000 /\ Len(is_segments) = 10000
    /\ Len(is_input.segs) = 2 /\ is_seg = 2 /\ is_read = 2
    /\ is_input.segs[2].n_mzs = 100001
    /\ is_segments[1] # <<>> /\ is_segments[2] = <<>>
    /\ is_pc = "error" /\ is_err = "Too many m/z ranges"

\* the m/z list the first scan header of the source selects, and its count
InficonFirstSegment == in_state.mz_segments[U16At(in_src, 14) \div 16 + 1]

InficonFirstCount == U16At(in_src, 10)

\* C23: the n records of a scan whose header declares the m/z count n and
\* selects segment s carry, in order, mz = s[0], ..., s[n-1], all with the
\* scan's time; the 16-byte header is read only for the first of them (when
\* mzs_left = 0) and each following record consumes one 4-byte intensity;
\* the reader does not stop with an error before the n records of a scan
\* that is whole in the source.
C23_InficonScanRecords ==
    /\ in_res.r.kind = "record" =>
          LET b == in_res.before
              a == in_res.r.state
              seg == a.mz_segments[a.cur_segment + 1]
          IN  IF b.mzs_left = 0
                  THEN /\ in_res.r.consumed = 20
                       /\ a.cur_segment = U16At(in_res.window, 14) \div 16
                       /\ Le32(a.cur_time) = Slice(in_res.window, 4, 8)
                       /\ Len(seg) = U16At(in_res.window, 10)
                       /\ a.mzs_left = Len(seg) - 1
                       /\ a.cur_mz = seg[1]
                  ELSE /\ in_res.r.consumed = 4
                       /\ a.cur_segment = b.cur_segment /\ a.cur_time = b.cur_time
                       /\ a.mzs_left = b.mzs_left - 1
                       /\ a.cur_mz = seg[Len(seg) - b.mzs_left + 1]
    /\ \A i \in 1..Len(in_recs) :
          i <= InficonFirstCount =>
              /\ in_recs[i].mz = InficonFirstSegment[i]
              /\ Le32(in_recs[i].time) = Slice(in_src, 4, 8)
              /\ in_pos >= 16 + 4 * i
    /\ (/\ in_pc = "error" /\ Len(in_src) >= 16
        /\ InficonFirstCount >= 1 /\ Len(in_src) >= 16 + 4 * InficonFirstCount
        /\ U16At(in_src, 14) \div 16 < Len(in_state.mz_segments)
        /\ Len(InficonFirstSegment) = InficonFirstCount) =>
          Len(in_recs) >= InficonFirstCount

\* the second record of a scan of two m/z values was returned from a
\* 4-byte intensity alone
C23_Witness ==
    /\ Len(in_recs) = 2 /\ in_res.r.kind = "record"
    /\ in_res.before.mzs_left = 1 /\ in_res.r.consumed = 4
    /\ in_recs[1].mz = 100 /\ in_recs[2].mz = 200
    /\ in_recs[1].time = -60012 /\ in_recs[2].time = -60012
    /\ in_pos = 24

(***************************************************************************)
(* Qualities and CIGAR of a BAM record (checked under SpecSamBam).         *)
(***************************************************************************)
\* where the qualities of the i-th record of the stream start in its data:
\* after the name, the cigar ops and the packed bases
BamQualStart(i) ==
    bam_stream[i].query_name_len + 4 * bam_stream[i].n_cigar_op
        + (bam_stream[i].seq_len + 1) \div 2

\* C25: in a BAM record whose first quality byte is 255 the decoded quality
\* is empty; otherwise it has length seq_len and each decoded byte is the
\* raw byte plus 33 as an integer, with no wraparound modulo 256 (and no
\* failure of the addition) for any raw byte.
C25_BamQualityPlus33 ==
    /\ bam_err # "attempt to add with overflow"
    /\ \A i \in 1..Len(bam_recs) :
          LET f == bam_stream[i]
              start == BamQualStart(i)
          IN  IF At(f.avail, start) = 255
                  THEN bam_recs[i].qual = <<>>
                  ELSE /\ Len(bam_recs[i].qual) = f.seq_len
                       /\ \A k \in 1..f.seq_len :
                             bam_recs[i].qual[k] = At(f.avail, start + k - 1) + 33

\* the value of the packed cigar op at data[at..] without its low 3 bits,
\* and its low 3 bits
CigarRun3(data, at) ==
    (At(data, at) \div 8) + 32 * At(data, at + 1) + 8192 * At(data, at + 2)
        + 2097152 * At(data, at + 3)

CigarLow3(data, at) == At(data, at) % 8

\* the rendering the claim gives the n ops at data[at..]
RECURSIVE CigarRendered(_, _, _)
CigarRendered(data, at, n) ==
    IF n = 0 THEN <<>>
    ELSE DecimalBytes(CigarRun3(data, at)) \o <<CigarLetters[CigarLow3(data, at) + 1]>>
            \o CigarRendered(data, at + 4, n - 1)

\* C26: each of the n_cigar_op packed little-endian ops of a BAM record is
\* rendered as a decimal run length and a letter, the letter being
\* 'MIDNSHP=X' at the low 3 bits of the op and the run length the op without
\* those low 3 bits; the rendered ops are concatenated in order.
C26_BamCigarRendering ==
    \A i \in 1..Len(bam_recs) :
        bam_recs[i].cigar =
            CigarRendered(bam_stream[i].avail, bam_stream[i].query_name_len,
                          bam_stream[i].n_cigar_op)

\* a position text whose numeric value is zero ("0", "00", "+0")
IsZeroText(text, ty) ==
    LET r == ParseInt(text, ty) IN r.ok /\ r.val = 0 /\ r.big = <<>>

\* C28: a SAM position or next-position field whose numeric value is zero
\* decodes as absent whatever its text, so the subtraction of 1 is never
\* applied to a parsed 0 and never underflows: no line fails in the
\* subtraction, and no record carries a position for a zero text.
C28_ZeroPositionAbsent ==
    /\ sam_pc # "panic"
    /\ \A i \in 1..Len(sam_recs) :
          LET chunks == SplitTab(sam_lines[i]) IN
          /\ IsZeroText(chunks[4], "u64") => sam_recs[i].pos = None
          /\ IsZeroText(chunks[8], "u32") => sam_recs[i].pnext = None

(***************************************************************************)
(* Progress of the readers driven by parse (checked under SpecParsers).    *)
(***************************************************************************)
\* C27: every successful FastqRecord::parse and InficonRecord::parse adds to
\* consumed a length between 1 and the length of the window, so what the
\* driver consumes stays within the window and the source, and every record
\* returned has taken at least one byte of the finite source.
C27_ParseProgress ==
    /\ fq_res.r.kind = "ok" =>
          fq_res.r.consumed >= 1 /\ fq_res.r.consumed <= Len(fq_res.window)
    /\ in_res.r.kind = "record" =>
          in_res.r.consumed >= 1 /\ in_res.r.consumed <= Len(in_res.window)
    /\ fq_res.r.kind \notin {"ok", "none"} => fq_res.r.consumed = 0
    /\ in_res.r.kind \notin {"record", "none"} => in_res.r.consumed = 0
    /\ fq_pos <= fq_fill /\ fq_fill <= Len(fq_src) /\ Len(fq_recs) <= fq_pos
    /\ in_pos <= in_fill /\ in_fill <= Len(in_src) /\ Len(in_recs) <= in_pos

\* a FASTQ record without its last newline took the whole window at the end
\* of the source
C27_Witness ==
    /\ fq_res.r.kind = "ok" /\ fq_res.eof
    /\ fq_res.r.consumed = Len(fq_res.window)
    /\ fq_res.window[Len(fq_res.window)] # LF
    /\ fq_pos = Len(fq_src) /\ Len(fq_recs) = 2

(***************************************************************************)
(* FastqRecord::parse over the chunks of a source (checked under           *)
(* SpecFastq).                                                             *)
(***************************************************************************)
\* a FastqState as an earlier call on other bytes may have left it
FastqStateStale == [header_end |-> 7, seq |-> <<3, 9>>, qual |-> <<5, 1>>]

\* what a caller sees of parse: the return value and what was added to
\* consumed, and after a success what get returns and the record it builds
FastqOutcome(buf, eof, st) ==
    LET r == FastqParse(buf, eof, st)
        g == FastqGet(buf, r.state)
    IN  [kind |-> r.kind, incomplete |-> r.incomplete, msg |-> r.msg,
         consumed |-> r.consumed,
         got |-> IF r.kind # "ok" THEN "none" ELSE IF g.ok THEN "ok" ELSE "error",
         rec |-> IF r.kind = "ok" /\ g.ok THEN <<g.rec>> ELSE <<>>]

\* the reader over the whole source in one window (eof set from the start):
\* the records with their consumed lengths, and the return that ends it
RECURSIVE FastqOneWindow(_, _)
FastqOneWindow(src, pos) ==
    LET buf == Drop(src, pos)
        o == FastqOutcome(buf, TRUE, FastqStateDefault)
        rest == FastqOneWindow(src, pos + o.consumed)
    IN  IF o.got = "ok" /\ o.consumed > 0
            THEN [recs |-> <<[rec |-> o.rec[1], consumed |-> o.consumed]>> \o rest.recs,
                  end |-> rest.end]
            ELSE [recs |-> <<>>, end |-> o]

\* C29: a parse that does not succeed leaves consumed alone; what parse
\* returns does not depend on the FastqState it is given; and the reader
\* over any chunking of a source returns the records, the consumed lengths
\* and the end that the reader over the whole source in one window returns.
C29_FastqRetrySafe ==
    LET one == FastqOneWindow(fq_src, 0)
        n == Len(fq_recs)
    IN  /\ fq_res.r.kind # "ok" => fq_res.r.consumed = 0
        /\ fq_res.r.kind # "none" =>
              /\ FastqOutcome(fq_res.window, fq_res.eof, FastqStateStale)
                    = FastqOutcome(fq_res.window, fq_res.eof, FastqStateDefault)
              /\ FastqOutcome(fq_res.window, fq_res.eof, FastqStateDefault)
                    = [kind |-> fq_res.r.kind, incomplete |-> fq_res.r.incomplete,
                       msg |-> fq_res.r.msg, consumed |-> fq_res.r.consumed,
                       got |-> fq_res.got,
                       rec |-> IF fq_res.got = "ok" THEN <<fq_recs[n]>> ELSE <<>>]
        /\ n <= Len(one.recs)
        /\ \A i \in 1..n : fq_recs[i] = one.recs[i].rec
        /\ fq_res.got = "ok" => fq_res.r.consumed = one.recs[n].consumed
        /\ fq_pc \in {"done", "error"} =>
              /\ n = Len(one.recs)
              /\ fq_res.r.kind = one.end.kind
              /\ fq_res.r.msg = one.end.msg
              /\ fq_res.got = one.end.got

\* the first record was returned from a window that ends inside the second
\* record, before the end of the source: the next parse runs on a prefix of
\* the second record with the FastqState of the first
C29_Witness ==
    /\ Len(fq_recs) = 1 /\ fq_res.r.kind = "ok"
    /\ ~fq_res.eof /\ fq_fill < Len(fq_src)
    /\ fq_res.r.consumed < Len(fq_res.window)
    /\ fq_state # FastqStateDefault
    /\ Len(FastqOneWindow(fq_src, 0).recs) = 2

(***************************************************************************)
(* The end of the FASTA records (checked under SpecFastaFair).             *)
(***************************************************************************)
\* between two calls of get, after a record was consumed: the buffer is
\* empty only at the end of the source, and a buffer that is not empty
\* starts with the '>' that ended the record
FastaAfterRecord ==
    (fa_pc = "get" /\ Len(fa_recs) > 0) =>
        IF Len(FaWindow) = 0
            THEN fa_eof /\ fa_pos = Len(fa_src)
            ELSE At(FaWindow, 0) = GT

\* done is reported with every byte of the source consumed
FastaDoneAtEnd == fa_pc = "done" => (fa_pos = Len(fa_src) /\ fa_fill = Len(fa_src))

\* C30: after get consumes a record the buffer is empty only if the end of
\* the source was reached (a record ended by a following '>' leaves that
\* '>' in the buffer, any other record extends to the end of the source),
\* so done is never reported while source bytes are unread; and the reader
\* over a finite source always comes to done or to an error.
C30_FastaEmptyMeansDone ==
    /\ [](FastaAfterRecord /\ FastaDoneAtEnd)
    /\ <>(fa_pc \in {"done", "error"})

\* two records were consumed: the first ended by the '>' of the second
\* header, the second by the end of the source, and done was reported
C30_Witness ==
    /\ fa_pc = "done" /\ Len(fa_recs) = 2
    /\ fa_src = TestFastaMultiline
    /\ fa_pos = Len(fa_src)

====
